---- MODULE Spec2Model ----
(***************************************************************************)
(* Activity tracking and inactivity classification of the moderation bot   *)
(* (src/index.js).  One guild is modelled.  The state is the SQLite table  *)
(* user_activity, the table guild_settings, the in-memory map              *)
(* activeVcSessions, the platform's view of the guild (members,            *)
(* permissions, roles, voice states) and the one asynchronous handler      *)
(* that may be suspended on an await.                                      *)
(*                                                                         *)
(* Time: Date.now() is a count of milliseconds.  The model counts ticks,   *)
(* TicksPerSecond of them to 1000 ms, so that 90 days fit TLC's integers.  *)
(* The wall clock is read, not kept: every read of Date.now() yields some  *)
(* value of ClockValues, later or (after an adjustment of the clock)       *)
(* earlier than the value read before.                                     *)
(***************************************************************************)
EXTENDS Integers, Sequences, FiniteSets, TLC

VARIABLES
    db,               \* user_activity of the guild: user_id -> row (rows exist lazily)
    settings,         \* guild_settings row of the guild, Null when absent
    activeVcSessions, \* Map key -> joinTimestamp, Null when the key is absent
    voiceCh,          \* platform: the voice channel each member is connected to
    present,          \* platform: the members of the guild (guild.members.cache)
    admins,           \* platform: holders of the Administrator permission
    roleHolders,      \* platform: holders of the role that exclude_role may name
    task,             \* the asynchronous handler in flight (command or cron job)
    lastKick,         \* history: the latest turn of the loop of kickMembers
    segStart,         \* history: time of the member's last handled join/move event
    segSum,           \* history: seconds of the closed segments of handled events
    runStart,         \* history: segStart, forgotten when the process restarts
    runSum,           \* history: seconds of the closed segments opened in the same run
    cl,               \* harness of the pure classifier: inputs and verdict
    steps             \* number of external events so far (bounds the exploration)

vars == <<db, settings, activeVcSessions, voiceCh, present, admins,
          roleHolders, task, lastKick, segStart, segSum, runStart, runSum, cl, steps>>

----------------------------------------------------------------------------
(* Bounds of the model *)

TicksPerSecond == 2
MaxClock == 1
MaxSteps == 3
MaxStoreOps == 2

(* Program constants *)

DEFAULT_INACTIVITY_DAYS == 90
DEFAULT_MIN_VC_MINUTES == 0

----------------------------------------------------------------------------
(* Values *)

\* null / undefined is the empty tuple, a value v is <<v>>
Null == <<>>
Some(v) == <<v>>
Nullable(S) == {Null} \cup {Some(v) : v \in S}

\* a ?? d
Coalesce(a, d) == IF a = Null THEN d ELSE a[1]

\* a || d on numbers: null, undefined and 0 are falsy
OrElse(a, d) == IF a = Null \/ a[1] = 0 THEN d ELSE a[1]

\* truthiness of a number that may be undefined
Truthy(a) == a # Null /\ a[1] # 0

Max(a, b) == IF a >= b THEN a ELSE b

Bots == {"b1"}
Humans == {"o1", "u1", "u2"}
Members == Bots \cup Humans
ownerId == "o1"
VoiceChannels == {"v1", "v2"}
ExcludableRole == "r1"

\* who the platform delivers events about: a bot and one ordinary member write
\* messages, that member uses voice; the owner and "u2" stay silent
Writers == {"b1", "u1"}
VoiceUsers == {"u1"}

\* whose permissions and roles change: "u1" is made or unmade an administrator,
\* "u2" is given or loses the role
Promotable == {"u1"}
Assignable == {"u2"}

\* iteration order of guild.members.cache
MemberOrder == <<"b1", "o1", "u1", "u2">>

msFromDays(days) == days * 24 * 60 * 60 * TicksPerSecond

\* the earliest value Date.now() takes
BootTime == msFromDays(2 * DEFAULT_INACTIVITY_DAYS)

\* the values Date.now() takes: a minute and a tick apart, so that a session
\* between two of them has whole seconds and a remainder, and reaches the
\* smallest positive threshold min_vc_minutes can set
ClockValues == {BootTime + k * (60 * TicksPerSecond + 1) : k \in 0..MaxClock}

----------------------------------------------------------------------------
(* Activity Store: the three prepared upserts on user_activity *)

NewRow(lm, lv, total) ==
    [last_message_at |-> lm, last_vc_at |-> lv, vc_seconds_total |-> total]

\* a variant of upsertMessage that replaces the whole row (INSERT OR REPLACE)
upsertMessageReplacing(d, u, ts) ==
    [v \in DOMAIN d \cup {u} |->
        IF v = u THEN NewRow(Some(ts), Null, Some(0)) ELSE d[v]]

upsertMessage(d, u, ts) ==
    IF u \in DOMAIN d
    THEN [d EXCEPT ![u].last_message_at = Some(ts)]
    ELSE d @@ (u :> NewRow(Some(ts), Null, Some(0)))

\* a variant of upsertVcJoin that replaces the whole row (INSERT OR REPLACE)
upsertVcJoinReplacing(d, u, ts) ==
    [v \in DOMAIN d \cup {u} |->
        IF v = u THEN NewRow(Null, Some(ts), Some(0)) ELSE d[v]]

upsertVcJoin(d, u, ts) ==
    IF u \in DOMAIN d
    THEN [d EXCEPT ![u].last_vc_at = Some(ts)]
    ELSE d @@ (u :> NewRow(Null, Some(ts), Some(0)))

\* a variant of addVcSeconds that overwrites last_vc_at instead of taking the MAX
addVcSecondsLatest(d, u, delta, ts) ==
    IF u \in DOMAIN d
    THEN [d EXCEPT ![u].vc_seconds_total = Some(Coalesce(@, 0) + delta),
                   ![u].last_vc_at = Some(ts)]
    ELSE d @@ (u :> NewRow(Null, Some(ts), Some(delta)))

addVcSeconds(d, u, delta, ts) ==
    IF u \in DOMAIN d
    THEN [d EXCEPT ![u].vc_seconds_total = Some(Coalesce(@, 0) + delta),
                   ![u].last_vc_at = Some(Max(Coalesce(@, 0), ts))]
    ELSE d @@ (u :> NewRow(Null, Some(ts), Some(delta)))

getActivityRow(d, u) ==
    IF u \in DOMAIN d THEN d[u] ELSE NewRow(Null, Null, Some(0))

\* variants of SessionDelta: rounding up instead of down, and without the clamp
SessionDeltaRoundedUp(t, start) ==
    Max(0, (t - start + TicksPerSecond - 1) \div TicksPerSecond)

SessionDeltaUnclamped(t, start) == (t - start) \div TicksPerSecond

\* Math.max(0, Math.floor((now - start) / 1000))
SessionDelta(t, start) == Max(0, (t - start) \div TicksPerSecond)

----------------------------------------------------------------------------
(* Inactivity classifier *)

\* a variant of isInactiveByThreshold whose quota applies at threshold 0 too
isInactiveQuotaAlways(row, cutoffMs, minVcSeconds) ==
    LET lm == Coalesce(row.last_message_at, 0)
        lv == Coalesce(row.last_vc_at, 0)
        vcEnough == OrElse(row.vc_seconds_total, 0) >= minVcSeconds
    IN  ~(lm >= cutoffMs) /\ ~(lv >= cutoffMs) /\ ~vcEnough

\* a variant of isInactiveByThreshold without the voice quota
isInactiveNoQuota(row, cutoffMs, minVcSeconds) ==
    LET lm == Coalesce(row.last_message_at, 0)
        lv == Coalesce(row.last_vc_at, 0)
    IN  ~(lm >= cutoffMs) /\ ~(lv >= cutoffMs)

isInactiveByThreshold(row, cutoffMs, minVcSeconds) ==
    LET lm == Coalesce(row.last_message_at, 0)
        lv == Coalesce(row.last_vc_at, 0)
        hasRecentMessage == lm >= cutoffMs
        hasRecentVC == lv >= cutoffMs
        vcEnough == (minVcSeconds > 0) /\ (OrElse(row.vc_seconds_total, 0) >= minVcSeconds)
    IN  ~hasRecentMessage /\ ~hasRecentVC /\ ~vcEnough

\* a variant of memberIsProtected without the Administrator test
memberIsProtectedNoAdmin(u, adm) == u \in Bots \/ u = ownerId

memberIsProtected(u, adm) ==
    \/ u \in Bots
    \/ u = ownerId
    \/ u \in adm

----------------------------------------------------------------------------
(* Initial state: a fresh database file, nobody connected to voice *)

\* the locals of the handler in flight; no handler in flight when pc = "idle"
BlankTask ==
    [kind |-> "none", pc |-> "idle", reply |-> "",
     \* the interaction: interaction.guild, memberPermissions, options
     inGuild |-> TRUE, callerKick |-> FALSE, callerManage |-> FALSE,
     confirm |-> Null, days |-> Null, minVcMinutes |-> Null, role |-> Null,
     channel |-> Null, dryRun |-> Null, user |-> Null,
     \* locals of scanInactive, kickMembers and the snapshot
     now |-> 0, cutoff |-> 0, minVcSeconds |-> 0, excludeRoleId |-> Null,
     fetchFailed |-> FALSE, list |-> << >>, idx |-> 0, kicked |-> << >>, target |-> Null, out |-> Null,
     \* locals of the hydrate-history handler and of its scanChannel
     perChannelLimit |-> 0, chans |-> << >>, scannedHere |-> 0, beforeId |-> Null,
     \* history: the table as the hydration run found it
     dbBefore |-> << >>,
     \* history: what this invocation has touched so far
     work |-> {}]

Idle == BlankTask
ClIdle == [pc |-> "idle"]

Init ==
    /\ db = << >>
    /\ settings = Null
    /\ activeVcSessions = [u \in Members |-> Null]
    /\ voiceCh = [u \in Members |-> Null]
    /\ present = Members
    /\ admins = {}
    /\ roleHolders = {}
    /\ task = Idle
    /\ lastKick = Null
    /\ segStart = [u \in Members |-> Null]
    /\ segSum = [u \in Members |-> 0]
    /\ runStart = [u \in Members |-> Null]
    /\ runSum = [u \in Members |-> 0]
    /\ cl = ClIdle
    /\ steps = 0

\* An external event arrives.  A handler runs from the arrival of its event to
\* its first await without interruption, and so from its last await to its return.
Event ==
    /\ steps < MaxSteps /\ steps' = steps + 1
    /\ task.pc \notin {"start", "done"}

----------------------------------------------------------------------------
(* The platform and the clock *)

\* the Administrator permission or the role is granted or revoked
SetAdmin ==
    /\ Event
    /\ \E u \in Promotable :
          admins' = IF u \in admins THEN admins \ {u} ELSE admins \cup {u}
    /\ UNCHANGED <<db, settings, activeVcSessions, voiceCh, present,
                   roleHolders, task, lastKick, segStart, segSum, runStart, runSum, cl>>

SetRole ==
    /\ Event
    /\ \E u \in Assignable :
          roleHolders' = IF u \in roleHolders THEN roleHolders \ {u}
                         ELSE roleHolders \cup {u}
    /\ UNCHANGED <<db, settings, activeVcSessions, voiceCh, present,
                   admins, task, lastKick, segStart, segSum, runStart, runSum, cl>>

\* the process is restarted: the database file survives, the memory does not
Restart ==
    /\ Event
    /\ activeVcSessions' = [u \in Members |-> Null]
    /\ task' = Idle
    /\ runStart' = [u \in Members |-> Null]
    /\ UNCHANGED <<db, settings, voiceCh, present, admins, roleHolders,
                   lastKick, segStart, segSum, runSum, cl>>

----------------------------------------------------------------------------
(* Live events *)

\* client.on('messageCreate')
MessageCreate ==
    /\ Event
    /\ \E u \in present \cap Writers, t \in ClockValues :
          db' = IF u \in Bots THEN db ELSE upsertMessage(db, u, t)
    /\ UNCHANGED <<settings, activeVcSessions, voiceCh, present, admins,
                   roleHolders, task, lastKick, segStart, segSum, runStart, runSum, cl>>

\* a variant of VoiceSessions whose disconnect keeps the entry
VoiceSessionsLeaveKeeps(sessions, u, oldCh, newCh, t) ==
    LET wasIn == oldCh # Null
        isIn == newCh # Null
    IN  IF ~wasIn /\ isIn THEN [sessions EXCEPT ![u] = Some(t)]
        ELSE IF wasIn /\ isIn /\ oldCh # newCh THEN [sessions EXCEPT ![u] = Some(t)]
        ELSE sessions

\* a variant of VoiceSessions whose move keeps the start of the session
VoiceSessionsMoveKeepsStart(sessions, u, oldCh, newCh, t) ==
    LET wasIn == oldCh # Null
        isIn == newCh # Null
        start == sessions[u]
    IN  IF ~wasIn /\ isIn THEN [sessions EXCEPT ![u] = Some(t)]
        ELSE IF wasIn /\ ~isIn
             THEN IF Truthy(start) THEN [sessions EXCEPT ![u] = Null] ELSE sessions
        ELSE IF wasIn /\ isIn /\ oldCh # newCh /\ ~Truthy(start)
             THEN [sessions EXCEPT ![u] = Some(t)]
        ELSE sessions

\* client.on('voiceStateUpdate'): the session map after the event
VoiceSessions(sessions, u, oldCh, newCh, t) ==
    LET wasIn == oldCh # Null
        isIn == newCh # Null
        start == sessions[u]
    IN  IF ~wasIn /\ isIn THEN [sessions EXCEPT ![u] = Some(t)]
        ELSE IF wasIn /\ ~isIn
             THEN IF Truthy(start) THEN [sessions EXCEPT ![u] = Null] ELSE sessions
        ELSE IF wasIn /\ isIn /\ oldCh # newCh THEN [sessions EXCEPT ![u] = Some(t)]
        ELSE sessions

\* a variant of VoiceStore that flushes without a tracked start, from time 0
VoiceStoreFlushUntracked(d, sessions, u, oldCh, newCh, t) ==
    LET wasIn == oldCh # Null
        isIn == newCh # Null
        flushed == addVcSeconds(d, u, SessionDelta(t, Coalesce(sessions[u], 0)), t)
    IN  IF ~wasIn /\ isIn THEN upsertVcJoin(d, u, t)
        ELSE IF wasIn /\ ~isIn THEN flushed
        ELSE IF wasIn /\ isIn /\ oldCh # newCh THEN upsertVcJoin(flushed, u, t)
        ELSE d

\* a variant of VoiceStore that takes every event of a connected member
\* for a move
VoiceStoreAnyChange(d, sessions, u, oldCh, newCh, t) ==
    LET wasIn == oldCh # Null
        isIn == newCh # Null
        start == sessions[u]
        flushed == IF Truthy(start)
                   THEN addVcSeconds(d, u, SessionDelta(t, start[1]), t)
                   ELSE d
    IN  IF ~wasIn /\ isIn THEN upsertVcJoin(d, u, t)
        ELSE IF wasIn /\ ~isIn THEN flushed
        ELSE IF wasIn /\ isIn THEN upsertVcJoin(flushed, u, t)
        ELSE d

\* client.on('voiceStateUpdate'): the table after the event
VoiceStore(d, sessions, u, oldCh, newCh, t) ==
    LET wasIn == oldCh # Null
        isIn == newCh # Null
        start == sessions[u]
        flushed == IF Truthy(start)
                   THEN addVcSeconds(d, u, SessionDelta(t, start[1]), t)
                   ELSE d
    IN  IF ~wasIn /\ isIn THEN upsertVcJoin(d, u, t)
        ELSE IF wasIn /\ ~isIn THEN flushed
        ELSE IF wasIn /\ isIn /\ oldCh # newCh THEN upsertVcJoin(flushed, u, t)
        ELSE d

\* the statements of user_activity that may throw while an event is handled
StoreFaults == {{}, {"add"}, {"join"}}

\* client.on('voiceStateUpdate') when the statements named in failing throw:
\* the session map as the catch finds it
VoiceSessionsFailing(sessions, u, oldCh, newCh, t, failing) ==
    LET wasIn == oldCh # Null
        isIn == newCh # Null
        start == sessions[u]
        addThrows == Truthy(start) /\ "add" \in failing
    IN  IF failing = {} THEN VoiceSessions(sessions, u, oldCh, newCh, t)
        ELSE IF ~wasIn /\ isIn THEN [sessions EXCEPT ![u] = Some(t)]
        ELSE IF wasIn /\ ~isIn
             THEN IF Truthy(start) /\ ~addThrows THEN [sessions EXCEPT ![u] = Null]
                  ELSE sessions
        ELSE IF wasIn /\ isIn /\ oldCh # newCh
             THEN IF addThrows THEN sessions ELSE [sessions EXCEPT ![u] = Some(t)]
        ELSE sessions

\* client.on('voiceStateUpdate') when the statements named in failing throw:
\* the table as the catch finds it
VoiceStoreFailing(d, sessions, u, oldCh, newCh, t, failing) ==
    LET wasIn == oldCh # Null
        isIn == newCh # Null
        start == sessions[u]
        addThrows == Truthy(start) /\ "add" \in failing
        flushed == IF Truthy(start)
                   THEN addVcSeconds(d, u, SessionDelta(t, start[1]), t)
                   ELSE d
    IN  IF failing = {} THEN VoiceStore(d, sessions, u, oldCh, newCh, t)
        ELSE IF ~wasIn /\ isIn
             THEN IF "join" \in failing THEN d ELSE upsertVcJoin(d, u, t)
        ELSE IF wasIn /\ ~isIn THEN IF addThrows THEN d ELSE flushed
        ELSE IF wasIn /\ isIn /\ oldCh # newCh
             THEN IF addThrows THEN d
                  ELSE IF "join" \in failing THEN flushed
                  ELSE upsertVcJoin(flushed, u, t)
        ELSE d

\* whether a statement named in failing is reached and throws
VoiceThrows(sessions, u, oldCh, newCh, failing) ==
    LET wasIn == oldCh # Null
        isIn == newCh # Null
        moved == wasIn /\ isIn /\ oldCh # newCh
        adds == wasIn /\ (~isIn \/ moved) /\ Truthy(sessions[u])
        joins == (~wasIn /\ isIn) \/ moved
    IN  \/ adds /\ "add" \in failing
        \/ joins /\ "join" \in failing

\* a variant of ListenerAfter for handlers without try and catch
ListenerAfterUncaught(threw) == IF threw THEN "crashed" ELSE "live"

\* the try and catch of both handlers: the exception is logged, the handler
\* returns, and the listener stays registered
ListenerAfter(threw) == "live"

\* the seconds of a segment that the event closes, given where it was opened
Closed(open, t) ==
    IF open = Null THEN 0 ELSE Max(0, (t - open[1]) \div TicksPerSecond)

VoiceStateUpdate ==
    /\ Event
    /\ \E u \in present \cap VoiceUsers, newCh \in Nullable(VoiceChannels),
          t \in ClockValues :
          LET oldCh == voiceCh[u]
              opens == newCh # Null /\ oldCh # newCh
              closes == oldCh # Null /\ oldCh # newCh
          IN  /\ voiceCh' = [voiceCh EXCEPT ![u] = newCh]
              /\ activeVcSessions' = VoiceSessions(activeVcSessions, u, oldCh, newCh, t)
              /\ db' = VoiceStore(db, activeVcSessions, u, oldCh, newCh, t)
              /\ segSum' = IF closes
                           THEN [segSum EXCEPT ![u] = @ + Closed(segStart[u], t)]
                           ELSE segSum
              /\ runSum' = IF closes
                           THEN [runSum EXCEPT ![u] = @ + Closed(runStart[u], t)]
                           ELSE runSum
              /\ segStart' = IF opens THEN [segStart EXCEPT ![u] = Some(t)]
                             ELSE IF closes THEN [segStart EXCEPT ![u] = Null]
                             ELSE segStart
              /\ runStart' = IF opens THEN [runStart EXCEPT ![u] = Some(t)]
                             ELSE IF closes THEN [runStart EXCEPT ![u] = Null]
                             ELSE runStart
    /\ UNCHANGED <<settings, present, admins, roleHolders, task, lastKick, cl>>

----------------------------------------------------------------------------
(* Guild channels and guild_settings *)

\* guild.channels.cache, in its iteration order: two text channels the bot can
\* read, one it cannot see, one category; "t1" is a thread of "c1"
ChannelOrder == <<"c1", "c2", "c3", "c4">>
Channels == {"c1", "c2", "c3", "c4"}
Threads == {"t1"}
isTextBased(ch) == ch \in {"c1", "c2", "c4", "t1"}
viewable(ch) == ch \in {"c1", "c3", "c4", "t1"}
canReadHistory(ch) == ch \in {"c1", "c4", "t1"}
ChannelName == [c1 |-> "general", c2 |-> "chat", c3 |-> "lounge", c4 |-> "memes"]
ThreadsOf(ch) == IF ch = "c1" THEN <<"t1">> ELSE << >>

Message(id, author, ts) == [id |-> id, author |-> author, createdTimestamp |-> ts]

\* what the channels held before the process first started, newest first
History(ch) ==
    IF ch = "c1"
    THEN <<Message(13, "u2", BootTime - msFromDays(1)),
           Message(12, "b1", BootTime - msFromDays(2)),
           Message(11, "u1", BootTime - msFromDays(100))>>
    ELSE IF ch = "c4" THEN <<Message(41, "u1", BootTime - msFromDays(3))>>
    ELSE IF ch = "t1" THEN <<Message(91, "o1", BootTime - msFromDays(1))>>
    ELSE << >>

\* process.env.MOD_LOG_CHANNEL_ID, HEALTH_LOG_CHANNEL_ID || CHAT_CHANNEL_ID: not set
EnvModLog == Null
EnvHealthLog == Null

NoSettings ==
    [modlog_channel_id |-> Null, healthlog_channel_id |-> Null, chat_channel_id |-> Null]

getSettingsRow(s) == IF s = Null THEN NoSettings ELSE s[1]

setModlog(s, ch) == Some([getSettingsRow(s) EXCEPT !.modlog_channel_id = Some(ch)])
setHealthlog(s, ch) == Some([getSettingsRow(s) EXCEPT !.healthlog_channel_id = Some(ch)])
setChatChannel(s, ch) == Some([getSettingsRow(s) EXCEPT !.chat_channel_id = Some(ch)])

\* a || b on ids
Either(a, b) == IF a # Null THEN a ELSE b

\* the channel a stored id resolves to, when it is text-based and viewable
Usable(id) ==
    IF id # Null /\ isTextBased(id[1]) /\ viewable(id[1]) THEN id ELSE Null

getTextChannelByName(nameLower) ==
    LET hit == {ch \in Channels :
                   isTextBased(ch) /\ viewable(ch) /\ ChannelName[ch] = nameLower}
    IN  IF hit = {} THEN Null ELSE Some(CHOOSE ch \in hit : TRUE)

getModLogChannel(s) ==
    Usable(Either(getSettingsRow(s).modlog_channel_id, EnvModLog))

getHealthLogChannel(s) ==
    LET row == getSettingsRow(s)
        pick == Either(Either(row.healthlog_channel_id, row.chat_channel_id), EnvHealthLog)
    IN  IF Usable(pick) # Null THEN Usable(pick) ELSE getTextChannelByName("chat")

----------------------------------------------------------------------------
(* Member Scanner and removal *)

\* the members the cache holds when a full fetch fails or times out
CachedMembers == {"b1", "o1", "u1"}

\* a variant of fetchAllMembers whose failure leaves no listing at all
fetchAllMembersOrNone(fetchOk, all) == IF fetchOk THEN all ELSE {}

\* fetchAllMembers: guild.members.cache after the fetch, or as it was
fetchAllMembers(fetchOk, all) == IF fetchOk THEN all ELSE all \cap CachedMembers

\* a variant of ScanWrites that stores a row for every member read without one
ScanWritesDefaults(d, members) ==
    [u \in DOMAIN d \cup members |->
        IF u \in DOMAIN d THEN d[u] ELSE NewRow(Null, Null, Some(0))]

\* the table after the loop of scanInactive: getActivityRow only SELECTs
ScanWrites(d, members) == d

\* scanInactive: cutoff and threshold, computed before the member fetch
ScanCutoff(t, days) == t - msFromDays(days)
ScanMinVcSeconds(minVcMinutes) == Max(0, minVcMinutes) * 60

\* a variant of ScanKeeps that does not ask the classifier
ScanKeepsUnclassified(u, d, adm, holders, cutoff, minVcSeconds, excludeRoleId) ==
    /\ ~memberIsProtected(u, adm)
    /\ ~(excludeRoleId # Null /\ u \in holders)

\* scanInactive: the loop over guild.members.cache
ScanKeeps(u, d, adm, holders, cutoff, minVcSeconds, excludeRoleId) ==
    /\ ~memberIsProtected(u, adm)
    /\ ~(excludeRoleId # Null /\ u \in holders)
    /\ isInactiveByThreshold(getActivityRow(d, u), cutoff, minVcSeconds)

scanInactive(cache, d, adm, holders, cutoff, minVcSeconds, excludeRoleId) ==
    LET Keep(u) == /\ u \in cache
                   /\ ScanKeeps(u, d, adm, holders, cutoff, minVcSeconds, excludeRoleId)
    IN  SelectSeq(MemberOrder, Keep)

\* scanInactive: getActivityRow is reached for the members that pass the
\* two tests before it
ScanLooksUp(u, adm, holders, excludeRoleId) ==
    /\ ~memberIsProtected(u, adm)
    /\ ~(excludeRoleId # Null /\ u \in holders)

\* scanInactive: the SELECT of getActivityRow throws for a member of failing,
\* nothing in the loop catches it, and the call rejects
scanInactiveThrows(cache, adm, holders, excludeRoleId, failing) ==
    \E u \in cache \cap failing : ScanLooksUp(u, adm, holders, excludeRoleId)

\* a variant of KickAttempted without the protection test on the fetched member
KickAttemptedUnchecked(fetched, u, adm) == fetched

\* kickMembers: whether the fetched member (null when the fetch failed) is kicked
KickAttempted(fetched, u, adm) == fetched /\ ~memberIsProtected(u, adm)

\* a variant of CallsKickMembers: every scan is followed by kickMembers
CallsKickMembersAlways(kind) == TRUE

\* the handlers that go on to kickMembers after their scan
CallsKickMembers(kind) == kind = "inactive-kick"

----------------------------------------------------------------------------
(* Command options *)

\* a string is a sequence of characters
LowerChar(c) ==
    CASE c = "T" -> "t" [] c = "R" -> "r" [] c = "U" -> "u" [] c = "E" -> "e"
      [] c = "Y" -> "y" [] c = "S" -> "s" [] OTHER -> c

toLowerCase(str) == [i \in 1..Len(str) |-> LowerChar(str[i])]

IsSpace(c) == c = " "

RECURSIVE trimStart(_)
trimStart(str) ==
    IF str # << >> /\ IsSpace(Head(str)) THEN trimStart(Tail(str)) ELSE str

RECURSIVE trimEnd(_)
trimEnd(str) ==
    IF str # << >> /\ IsSpace(str[Len(str)])
    THEN trimEnd(SubSeq(str, 1, Len(str) - 1))
    ELSE str

trim(str) == trimEnd(trimStart(str))

\* (interaction.options.getString('confirm') || '').toLowerCase().trim()
NormalizedConfirm(opt) == trim(toLowerCase(IF opt = Null THEN << >> ELSE opt[1]))

\* a variant of ConfirmAccepted: any non-blank confirmation is accepted
ConfirmAcceptedNonBlank(opt) == NormalizedConfirm(opt) # << >>

\* the test the inactive-kick handler makes before it proceeds
ConfirmAccepted(opt) == NormalizedConfirm(opt) = <<"t", "r", "u", "e">>

ConfirmOptions ==
    {Null, Some(<<"t", "r", "u", "e">>), Some(<<" ", "T", "r", "u", "e">>),
     Some(<<"y", "e", "s">>)}
DaysOptions == Nullable({-1})
MinVcOptions == Nullable({-1, 1})
RoleOptions == Nullable({ExcludableRole})
\* the channel option of the three set commands, and the options of
\* /health-snapshot: a channel that can be posted to and ones that cannot
SetChannelOptions == {"c1", "c2", "c3"}
SnapshotChannelOptions == Nullable({"c4", "c3"})
DryRunOptions == Nullable({TRUE})

GatedCommands ==
    {"inactive-scan", "inactive-kick", "hydrate-history", "debug-activity",
     "modlog-set", "healthlog-set", "chat-set", "health-snapshot",
     "peek-channel", "debug-channel"}

\* the checks every command passes first: the reply that ends it, or "pass"
Gatekeeper(cmd, inGuild, callerKick) ==
    IF ~inGuild THEN "use-in-server"
    ELSE IF cmd \in GatedCommands /\ ~callerKick THEN "need-kick-members"
    ELSE "pass"

\* a variant of ManageGuildGate that lets every caller pass
ManageGuildGateOpen(callerManage) == "pass"

\* the second check of hydrate-history, modlog-set, healthlog-set and chat-set
ManageGuildGate(callerManage) == IF ~callerManage THEN "need-manage-server" ELSE "pass"

----------------------------------------------------------------------------
(* client.on('interactionCreate') and the cron jobs.  A handler runs up to *)
(* its next await in one step; live events interleave at the awaits.  The  *)
(* await of deferReply comes before anything is read and is folded into    *)
(* the step that follows it.  One asynchronous handler is in flight at a   *)
(* time.                                                                   *)

SlotFree == task.pc = "idle"

liveVars == <<db, activeVcSessions, voiceCh, admins, roleHolders,
              segStart, segSum, runStart, runSum, cl>>

Interaction(cmd, inGuild, callerKick, callerManage) ==
    [BlankTask EXCEPT !.kind = cmd, !.pc = "start", !.inGuild = inGuild,
                      !.callerKick = callerKick, !.callerManage = callerManage]

\* The interaction carries the caller's permissions and the options; an option
\* is drawn where the handler reads it, except confirm, which decides the reply.
\* interaction.guild, KickMembers and ManageGuild of the caller: all there, or
\* one of them missing (ManageGuild only where the command asks for it)
Callers(cmd) ==
    {<<TRUE, TRUE, TRUE>>, <<FALSE, TRUE, TRUE>>, <<TRUE, FALSE, TRUE>>}
    \cup IF cmd \in {"hydrate-history", "modlog-set", "healthlog-set", "chat-set"}
         THEN {<<TRUE, TRUE, FALSE>>} ELSE {}

ManageCommands == {"hydrate-history", "modlog-set", "healthlog-set", "chat-set"}
SetCommands == {"modlog-set", "healthlog-set", "chat-set"}
Commands ==
    {"inactive-scan", "inactive-kick", "debug-activity", "health-snapshot"}
    \cup ManageCommands

Interactions ==
    {[Interaction(cmd, c[1], c[2], c[3]) EXCEPT !.confirm = confirm] :
       cmd \in {"inactive-kick"}, c \in Callers("inactive-kick"),
       confirm \in ConfirmOptions}
    \cup UNION {{Interaction(cmd, c[1], c[2], c[3]) : c \in Callers(cmd)} :
                  cmd \in Commands \ {"inactive-kick"}}

\* a slash command arrives
InteractionCreate ==
    /\ Event /\ SlotFree
    /\ \E i \in Interactions : task' = i
    /\ UNCHANGED <<liveVars, settings, present, lastKick>>

\* the handler has returned: its reply and what it did remain to be seen
Returned(tk, reply) ==
    [BlankTask EXCEPT !.kind = tk.kind, !.pc = "done", !.reply = reply,
                      !.inGuild = tk.inGuild, !.callerKick = tk.callerKick,
                      !.callerManage = tk.callerManage, !.confirm = tk.confirm,
                      !.fetchFailed = tk.fetchFailed, !.dbBefore = tk.dbBefore,
                      !.list = tk.list, !.kicked = tk.kicked, !.out = tk.out,
                      !.work = tk.work]

\* the options are read; what stays is what the rest of the handler uses
Parsed(tk) ==
    [BlankTask EXCEPT !.kind = tk.kind, !.pc = "start", !.work = tk.work,
                      !.inGuild = tk.inGuild, !.callerKick = tk.callerKick,
                      !.callerManage = tk.callerManage, !.confirm = tk.confirm]

\* scanInactive from its first line to the await of the member fetch
ScanEntered(tk, t, days, minVcMinutes, excludeRoleId) ==
    [Parsed(tk) EXCEPT !.pc = "fetch",
                       !.days = Some(days), !.minVcMinutes = Some(minVcMinutes),
                       !.now = t, !.cutoff = ScanCutoff(t, days),
                       !.minVcSeconds = ScanMinVcSeconds(minVcMinutes),
                       !.excludeRoleId = excludeRoleId,
                       !.work = @ \cup {"memberList"}]

\* /inactive-scan up to the member fetch of scanInactive
InactiveScanRun ==
    /\ task.pc = "start" /\ task.kind = "inactive-scan"
    /\ \E days \in DaysOptions, minVc \in MinVcOptions, role \in RoleOptions,
          t \in ClockValues :
          LET gate == Gatekeeper(task.kind, task.inGuild, task.callerKick)
          IN  task' = IF gate # "pass" THEN Returned(task, gate)
                      ELSE ScanEntered(task, t,
                                       Coalesce(days, DEFAULT_INACTIVITY_DAYS),
                                       Coalesce(minVc, DEFAULT_MIN_VC_MINUTES),
                                       role)
    /\ UNCHANGED <<liveVars, settings, present, lastKick, steps>>

\* /inactive-kick up to the member fetch of scanInactive
InactiveKickRun ==
    /\ task.pc = "start" /\ task.kind = "inactive-kick"
    /\ \E days \in DaysOptions, minVc \in MinVcOptions, role \in RoleOptions,
          t \in ClockValues :
          LET gate == Gatekeeper(task.kind, task.inGuild, task.callerKick)
          IN  task' = IF gate # "pass" THEN Returned(task, gate)
                      ELSE IF ~ConfirmAccepted(task.confirm)
                           THEN Returned(task, "type-true-to-proceed")
                      ELSE ScanEntered(task, t,
                                       Coalesce(days, DEFAULT_INACTIVITY_DAYS),
                                       Coalesce(minVc, DEFAULT_MIN_VC_MINUTES),
                                       role)
    /\ UNCHANGED <<liveVars, settings, present, lastKick, steps>>

\* the daily 04:00 job (one guild), up to the member fetch of its scan
CronInactiveReport ==
    /\ Event /\ SlotFree
    /\ \E t \in ClockValues :
          task' = ScanEntered([BlankTask EXCEPT !.kind = "cron-inactive-report"], t,
                              DEFAULT_INACTIVITY_DAYS, DEFAULT_MIN_VC_MINUTES, Null)
    /\ UNCHANGED <<liveVars, settings, present, lastKick>>

\* the caller of scanInactive once the list is returned, at its next await
AfterScan(tk, list, fetchOk, s) ==
    LET scanned == [tk EXCEPT !.list = list, !.fetchFailed = ~fetchOk,
                              !.days = Null, !.minVcMinutes = Null,
                              !.now = 0, !.confirm = Null, !.cutoff = 0,
                              !.minVcSeconds = 0, !.excludeRoleId = Null,
                              !.work = @ \cup {"storeRead"}]
    IN  IF CallsKickMembers(tk.kind)
        THEN IF list = << >> THEN Returned(scanned, "kicked")
             ELSE [scanned EXCEPT !.pc = "kick", !.idx = 1,
                                  !.work = @ \cup {"memberFetch"}]
        ELSE IF tk.kind = "cron-inactive-report"
        THEN [scanned EXCEPT !.pc = "send",
                             !.work = @ \cup {"settingsRead"},
                             !.target = Either(getModLogChannel(s),
                                               getHealthLogChannel(s))]
        ELSE [Returned(scanned, "listed") EXCEPT
                 !.cutoff = tk.cutoff,
                 !.minVcSeconds = tk.minVcSeconds,
                 !.excludeRoleId = tk.excludeRoleId]

\* the member fetch resolved (or timed out: the cache is used either way);
\* the loop of scanInactive runs, and its caller goes on to its next await
ScanDone ==
    /\ task.pc = "fetch"
    /\ task.kind \in {"inactive-scan", "inactive-kick", "cron-inactive-report"}
    /\ \E fetchOk \in BOOLEAN :
          LET members == fetchAllMembers(fetchOk, present)
              list == scanInactive(members, db, admins, roleHolders, task.cutoff,
                                   task.minVcSeconds, task.excludeRoleId)
          IN  /\ db' = ScanWrites(db, members)
              /\ task' = AfterScan(task, list, fetchOk, settings)
    /\ UNCHANGED <<activeVcSessions, voiceCh, admins, roleHolders, segStart, segSum,
                   runStart, runSum, cl, settings, present, lastKick, steps>>

\* the report is sent to the channels found (or logged to the console)
ReportSent ==
    /\ task.pc = "send"
    /\ task' = Returned(task, IF task.target = Null THEN "logged" ELSE "sent")
    /\ UNCHANGED <<liveVars, settings, present, lastKick, steps>>

\* a variant of KickedAfter that records the member before the kick resolves
KickedAfterAttempt(kicked, u, removed) == Append(kicked, u)

\* kickMembers: kicked.push(userId) follows the await of a kick that resolved
KickedAfter(kicked, u, removed) == IF removed THEN Append(kicked, u) ELSE kicked

\* kickMembers: one turn of its loop, the re-fetch and the kick of userIds[idx]
KickNext ==
    /\ task.pc = "kick"
    /\ \E fetchOk \in BOOLEAN, kickOk \in BOOLEAN :
          LET u == task.list[task.idx]
              fetched == fetchOk /\ u \in present
              attempt == KickAttempted(fetched, u, admins)
              removed == attempt /\ kickOk
              after == [task EXCEPT !.idx = @ + 1,
                                    !.kicked = KickedAfter(@, u, removed),
                                    !.work = IF attempt THEN @ \cup {"kick"} ELSE @]
          IN  /\ present' = IF removed THEN present \ {u} ELSE present
              /\ lastKick' = Some([id |-> u, by |-> task.kind, fetched |-> fetched,
                                   admin |-> u \in admins,
                                   attempted |-> attempt, removed |-> removed])
              /\ task' = IF task.idx = Len(task.list) THEN Returned(after, "kicked")
                         ELSE after
    /\ UNCHANGED <<liveVars, settings, steps>>

\* /debug-activity
DebugActivityRun ==
    /\ task.pc = "start" /\ task.kind = "debug-activity"
    /\ \E u \in Members :
          LET gate == Gatekeeper(task.kind, task.inGuild, task.callerKick)
          IN  task' = IF gate # "pass" THEN Returned(task, gate)
                      ELSE Returned([task EXCEPT !.out = Some(getActivityRow(db, u)),
                                                 !.work = @ \cup {"storeRead"}],
                                    "shown")
    /\ UNCHANGED <<liveVars, settings, present, lastKick, steps>>

\* what /modlog-set, /healthlog-set and /chat-set store
SettingsAfter(cmd, s, ch) ==
    IF cmd = "modlog-set" THEN setModlog(s, ch)
    ELSE IF cmd = "healthlog-set" THEN setHealthlog(s, ch)
    ELSE setChatChannel(s, ch)

\* /modlog-set, /healthlog-set, /chat-set
SetChannelRun ==
    /\ task.pc = "start" /\ task.kind \in SetCommands
    /\ \E ch \in SetChannelOptions :
          LET gate == Gatekeeper(task.kind, task.inGuild, task.callerKick)
              manage == ManageGuildGate(task.callerManage)
              bad == ~isTextBased(ch) \/ ~viewable(ch)
              reject == IF gate # "pass" THEN gate
                        ELSE IF manage # "pass" THEN manage
                        ELSE IF bad THEN "choose-a-text-channel"
                        ELSE "pass"
          IN  IF reject # "pass"
              THEN /\ task' = [Returned(task, reject) EXCEPT
                                  !.target = IF bad /\ reject = "choose-a-text-channel"
                                             THEN Some(ch) ELSE Null]
                   /\ settings' = settings
              ELSE /\ task' = Returned([task EXCEPT !.work = @ \cup {"settingsWrite"}],
                                       "channel-set")
                   /\ settings' = SettingsAfter(task.kind, settings, ch)
    /\ UNCHANGED <<liveVars, present, lastKick, steps>>

\* buildHealthSnapshotForGuild from its first line to the await of the member fetch
SnapshotEntered(tk, t, target, dryRun) ==
    [Parsed(tk) EXCEPT !.pc = "fetch", !.cutoff = t - 24 * 60 * 60 * TicksPerSecond,
                       !.target = target, !.dryRun = Some(dryRun),
                       !.work = @ \cup {"memberList"}]

\* /health-snapshot up to the member fetch
HealthSnapshotRun ==
    /\ task.pc = "start" /\ task.kind = "health-snapshot"
    /\ \E overrideChannel \in SnapshotChannelOptions, dryRun \in DryRunOptions,
          t \in ClockValues :
          LET gate == Gatekeeper(task.kind, task.inGuild, task.callerKick)
              target == IF overrideChannel # Null THEN overrideChannel
                        ELSE getHealthLogChannel(settings)
              looked == [task EXCEPT !.work = IF overrideChannel # Null THEN @
                                              ELSE @ \cup {"settingsRead"}]
          IN  task' = IF gate # "pass" THEN Returned(task, gate)
                      ELSE IF target = Null THEN Returned(looked, "no-health-channel")
                      ELSE IF ~isTextBased(target[1]) \/ ~viewable(target[1])
                           THEN Returned(looked, "cannot-post")
                      ELSE SnapshotEntered(looked, t, target, Coalesce(dryRun, FALSE))
    /\ UNCHANGED <<liveVars, settings, present, lastKick, steps>>

\* the daily 12:30 job (one guild), up to the member fetch of its snapshot
CronHealthSnapshot ==
    /\ Event /\ SlotFree
    /\ LET job == [BlankTask EXCEPT !.kind = "cron-health-snapshot",
                                    !.work = {"settingsRead"}]
           target == getHealthLogChannel(settings)
       IN  \E t \in ClockValues :
              task' = IF target = Null THEN Returned(job, "no-health-channel")
                      ELSE SnapshotEntered(job, t, target, FALSE)
    /\ UNCHANGED <<liveVars, settings, present, lastKick>>

\* the counts of buildHealthSnapshotForGuild
SnapshotCounts(cache, d, since) ==
    LET recentText == {u \in cache :
                          /\ Truthy(getActivityRow(d, u).last_message_at)
                          /\ getActivityRow(d, u).last_message_at[1] >= since}
        recentVc == {u \in cache :
                        /\ Truthy(getActivityRow(d, u).last_vc_at)
                        /\ getActivityRow(d, u).last_vc_at[1] >= since}
    IN  [activeUsers |-> Cardinality(recentText),
         textSenders |-> Cardinality(recentText),
         vcJoins |-> Cardinality(recentVc)]

\* the member fetch resolved; the snapshot is built and posted (or previewed)
SnapshotDone ==
    /\ task.pc = "fetch"
    /\ task.kind \in {"health-snapshot", "cron-health-snapshot"}
    /\ \E fetchOk \in BOOLEAN :
          task' = Returned([task EXCEPT
                               !.out = Some(SnapshotCounts(fetchAllMembers(fetchOk, present),
                                                           db, task.cutoff)),
                               !.fetchFailed = ~fetchOk,
                               !.work = @ \cup {"storeRead"}],
                           IF task.dryRun = Some(TRUE) THEN "dry-run" ELSE "posted")
    /\ UNCHANGED <<liveVars, settings, present, lastKick, steps>>

Min(a, b) == IF a <= b THEN a ELSE b

HydrateDaysOptions == {Null}
HydrateLimitOptions == {Some(1)}
HydrateChannelOptions == Nullable({"c2"})

\* canScan of the hydrate-history handler (no channel here is a voice channel)
canScan(ch) == isTextBased(ch) /\ viewable(ch) /\ canReadHistory(ch)

\* channelsToScan: the base channels that are text-based and viewable, each
\* followed by its viewable threads when include_threads is set
RECURSIVE WithThreads(_, _)
WithThreads(base, includeThreads) ==
    IF base = << >> THEN << >>
    ELSE LET ch == Head(base)
             own == IF isTextBased(ch) /\ viewable(ch)
                    THEN <<ch>> \o (IF includeThreads
                                    THEN SelectSeq(ThreadsOf(ch), viewable)
                                    ELSE << >>)
                    ELSE << >>
         IN  own \o WithThreads(Tail(base), includeThreads)

channelsToScan(targetChannel, includeThreads) ==
    WithThreads(IF targetChannel # Null THEN <<targetChannel[1]>>
                ELSE SelectSeq(ChannelOrder, canScan),
                includeThreads)

NoStats == [channelsScanned |-> 0, messagesScanned |-> 0, usersTouched |-> 0]

\* a variant of HydrateRecords without the test of author.bot
HydrateRecordsBots(m, cutoff) == m.createdTimestamp >= cutoff

\* scanChannel: whether a scanned message is recorded
HydrateRecords(m, cutoff) == m.author \notin Bots /\ m.createdTimestamp >= cutoff

\* scanChannel: the table after the loop over one batch.  The loop is taken
\* half by half, the table after the first half being computed before the
\* second half starts, so that a page of 100 messages evaluates in shallow depth.
RECURSIVE HydrateBatch(_, _, _)
HydrateBatch(d, batch, cutoff) ==
    IF batch = << >> THEN d
    ELSE IF Len(batch) = 1
    THEN LET m == Head(batch)
         IN  IF HydrateRecords(m, cutoff)
             THEN upsertMessage(d, m.author, m.createdTimestamp)
             ELSE d
    ELSE LET half == Len(batch) \div 2
             first == HydrateBatch(d, SubSeq(batch, 1, half), cutoff)
             second == SubSeq(batch, half + 1, Len(batch))
         IN  IF DOMAIN first = {} THEN HydrateBatch(<< >>, second, cutoff)
             ELSE HydrateBatch(first, second, cutoff)

\* channel.messages.fetch({ limit, before }) on a channel holding history
FetchMessagesFrom(history, limit, before) ==
    LET IsOlder(m) == before = Null \/ m.id < before[1]
        older == SelectSeq(history, IsOlder)
    IN  SubSeq(older, 1, Min(limit, Len(older)))

FetchMessages(ch, limit, before) == FetchMessagesFrom(History(ch), limit, before)

\* a variant of PageLimit that asks for a full page whatever is left
PageLimitFull(left) == 100

\* scanChannel: limit: Math.min(100, left)
PageLimit(left) == Min(100, left)

\* Math.min(Math.max(pclRaw, 200), 20000)
HydrateClamp(pclRaw) == Min(Max(pclRaw, 200), 20000)

\* scanChannel is entered for the head of chans, up to its first page fetch
ChannelEntered(tk) ==
    [tk EXCEPT !.pc = "page", !.scannedHere = 0, !.beforeId = Null,
               !.out = Some([tk.out[1] EXCEPT !.channelsScanned = @ + 1]),
               !.work = @ \cup {"historyFetch"}]

\* a variant of PageAgain that goes on after an empty page
PageAgainAfterEmpty(batch, cutoff, scannedHere, perChannelLimit) ==
    /\ batch # << >> => batch[Len(batch)].createdTimestamp >= cutoff
    /\ scannedHere < perChannelLimit

\* scanChannel: whether the while loop takes another turn after this batch
PageAgain(batch, cutoff, scannedHere, perChannelLimit) ==
    /\ batch # << >>
    /\ batch[Len(batch)].createdTimestamp >= cutoff
    /\ scannedHere < perChannelLimit

\* scanChannel: the handler after one batch, at the next page fetch of this
\* channel, at the first of the next channel, or returned
AfterPage(tk, batch) ==
    LET last == batch[Len(batch)]
        recorded == SelectSeq(batch, LAMBDA m : HydrateRecords(m, tk.cutoff))
        read == [tk EXCEPT
                    !.scannedHere = @ + Len(batch),
                    !.beforeId = IF batch = << >> THEN @ ELSE Some(last.id),
                    !.out = Some([@[1] EXCEPT
                                     !.messagesScanned = @ + Len(batch),
                                     !.usersTouched = @ + Len(recorded)]),
                    !.work = IF recorded = << >> THEN @
                             ELSE @ \cup {"storeWrite"}]
        rest == [read EXCEPT !.chans = Tail(@)]
    IN  IF PageAgain(batch, tk.cutoff, read.scannedHere, tk.perChannelLimit) THEN read
        ELSE IF rest.chans = << >> THEN Returned(rest, "hydrate-complete")
        ELSE ChannelEntered(rest)

\* the handler when its options are read and the channels are listed
HydrateBegun(tk, days, pclRaw, chans, t, d) ==
    [Parsed(tk) EXCEPT
        !.cutoff = t - Coalesce(days, 90) * 24 * 60 * 60 * TicksPerSecond,
        !.perChannelLimit = HydrateClamp(Coalesce(pclRaw, 500)),
        !.chans = chans, !.out = Some(NoStats), !.dbBefore = d]

\* /hydrate-history up to the first page fetch
HydrateRun ==
    /\ task.pc = "start" /\ task.kind = "hydrate-history"
    /\ \E days \in HydrateDaysOptions, pclRaw \in HydrateLimitOptions,
          targetChannel \in HydrateChannelOptions, includeThreads \in Nullable(BOOLEAN),
          t \in ClockValues :
          LET gate == Gatekeeper(task.kind, task.inGuild, task.callerKick)
              manage == ManageGuildGate(task.callerManage)
              chans == channelsToScan(targetChannel, Coalesce(includeThreads, FALSE))
              begun == HydrateBegun(task, days, pclRaw, chans, t, db)
          IN  task' = IF gate # "pass" THEN Returned(task, gate)
                      ELSE IF manage # "pass" THEN Returned(task, manage)
                      ELSE IF chans = << >>
                      THEN [Returned(begun, "hydrate-complete") EXCEPT
                               !.target = targetChannel]
                      ELSE ChannelEntered(begun)
    /\ UNCHANGED <<liveVars, settings, present, lastKick, steps>>

\* scanChannel: one turn of its loop, from the page fetch to the next one
HydratePage ==
    /\ task.pc = "page"
    /\ \E fetchOk \in BOOLEAN :
          LET ch == Head(task.chans)
              left == task.perChannelLimit - task.scannedHere
              batch == IF fetchOk THEN FetchMessages(ch, PageLimit(left), task.beforeId)
                       ELSE << >>
          IN  /\ db' = HydrateBatch(db, batch, task.cutoff)
              /\ task' = AfterPage(task, batch)
    /\ UNCHANGED <<settings, activeVcSessions, voiceCh, present, admins,
                   roleHolders, lastKick, segStart, segSum, runStart, runSum, cl, steps>>

\* the reply is out and the handler has returned
HandlerReturns ==
    /\ task.pc = "done"
    /\ task' = Idle
    /\ lastKick' = Null
    /\ UNCHANGED <<liveVars, settings, present, steps>>

Next ==
    \/ SetAdmin
    \/ SetRole
    \/ Restart
    \/ MessageCreate
    \/ VoiceStateUpdate
    \/ InteractionCreate
    \/ InactiveScanRun
    \/ InactiveKickRun
    \/ CronInactiveReport
    \/ ScanDone
    \/ ReportSent
    \/ KickNext
    \/ DebugActivityRun
    \/ SetChannelRun
    \/ HealthSnapshotRun
    \/ CronHealthSnapshot
    \/ SnapshotDone
    \/ HydrateRun
    \/ HydratePage
    \/ HandlerReturns

Spec == Init /\ [][Next]_vars

----------------------------------------------------------------------------
(* The classifier on its own: isInactiveByThreshold applied to every row,  *)
(* cutoff and threshold of a bounded set                                    *)

\* timestamps a row can hold, around the cutoffs below
ClTimes ==
    {BootTime - msFromDays(DEFAULT_INACTIVITY_DAYS) - 1,
     BootTime - msFromDays(DEFAULT_INACTIVITY_DAYS)} \cup ClockValues

\* rows as getActivityRow returns them: the timestamps may be unset
ClRows ==
    {NewRow(lm, lv, Some(total)) :
       lm \in Nullable(ClTimes), lv \in Nullable(ClTimes), total \in {0, 59, 60, 61}}

\* the cutoffs and thresholds scanInactive computes
ClCutoffs == {ScanCutoff(t, days) : t \in ClockValues, days \in {0, DEFAULT_INACTIVITY_DAYS}}
ClThresholds == {ScanMinVcSeconds(m) : m \in {-1, 0, 1}}

InitClassify ==
    /\ db = << >>
    /\ settings = Null
    /\ activeVcSessions = [u \in Members |-> Null]
    /\ voiceCh = [u \in Members |-> Null]
    /\ present = Members
    /\ admins = {}
    /\ roleHolders = {}
    /\ task = Idle
    /\ lastKick = Null
    /\ segStart = [u \in Members |-> Null]
    /\ segSum = [u \in Members |-> 0]
    /\ runStart = [u \in Members |-> Null]
    /\ runSum = [u \in Members |-> 0]
    /\ steps = 0
    /\ \E row \in ClRows, cutoffMs \in ClCutoffs, minVcSeconds \in ClThresholds :
          cl = [pc |-> "called", row |-> row, cutoffMs |-> cutoffMs,
                minVcSeconds |-> minVcSeconds, result |-> FALSE]

Classify ==
    /\ cl.pc = "called"
    /\ cl' = [cl EXCEPT !.pc = "returned",
                        !.result = isInactiveByThreshold(cl.row, cl.cutoffMs,
                                                         cl.minVcSeconds)]
    /\ UNCHANGED <<db, settings, activeVcSessions, voiceCh, present, admins,
                   roleHolders, task, lastKick, segStart, segSum, runStart, runSum,
                   steps>>

NextClassify == Classify

SpecClassify == InitClassify /\ [][NextClassify]_vars


----------------------------------------------------------------------------
(* The store on its own: the prepared statements of user_activity run, one *)
(* at a time and in any order, on a table that holds one row or none.  A   *)
(* statement of better-sqlite3 runs synchronously to completion, so each   *)
(* is one step.  cl logs the statement run last and the deltas applied.    *)

StoreKeys == {"u1", "u2"}
StoreTimes == ClockValues
\* a statement takes any integer; the voice handler passes SessionDelta only
StoreDeltas == {-1, 0, 2}

\* the row the table may hold at first, for u1
StoreRows ==
    {NewRow(lm, lv, Some(total)) :
       lm \in Nullable({BootTime + 60 * TicksPerSecond + 1}),
       lv \in Nullable({BootTime + 60 * TicksPerSecond + 1}),
       total \in {0, 60}}

RowOf(d, u) == IF u \in DOMAIN d THEN Some(d[u]) ELSE Null

StoreLog(op, u, d, delta, ts, start) ==
    [cl EXCEPT !.op = op, !.key = u, !.before = RowOf(d, u),
               !.delta = delta, !.ts = ts, !.start = start]

InitStore ==
    /\ db \in {<< >>} \cup {("u1" :> row) : row \in StoreRows}
    /\ settings = Null
    /\ activeVcSessions = [u \in Members |-> Null]
    /\ voiceCh = [u \in Members |-> Null]
    /\ present = Members
    /\ admins = {}
    /\ roleHolders = {}
    /\ task = Idle
    /\ lastKick = Null
    /\ segStart = [u \in Members |-> Null]
    /\ segSum = [u \in Members |-> 0]
    /\ runStart = [u \in Members |-> Null]
    /\ runSum = [u \in Members |-> 0]
    /\ steps = 0
    /\ cl = [pc |-> "store", op |-> "none", key |-> "u1", before |-> Null,
             delta |-> 0, ts |-> 0, start |-> 0, seen |-> Null,
             base |-> [u \in StoreKeys |->
                         Coalesce(getActivityRow(db, u).vc_seconds_total, 0)],
             sum |-> [u \in StoreKeys |-> 0],
             added |-> {}]

StoreStep ==
    /\ cl.pc = "store"
    /\ steps < MaxStoreOps /\ steps' = steps + 1
    /\ UNCHANGED <<settings, activeVcSessions, voiceCh, present, admins, roleHolders,
                   task, lastKick, segStart, segSum, runStart, runSum>>

\* addVcSeconds.run({ delta, ts })
StoreAdd ==
    /\ StoreStep
    /\ \E u \in StoreKeys, delta \in StoreDeltas, ts \in StoreTimes :
          /\ db' = addVcSeconds(db, u, delta, ts)
          /\ cl' = [StoreLog("add", u, db, delta, ts, 0) EXCEPT
                       !.sum[u] = @ + delta, !.added = @ \cup {u}]

\* the flush of the voiceStateUpdate handler: delta computed, then the statement
StoreFlush ==
    /\ StoreStep
    /\ \E u \in StoreKeys, start \in StoreTimes, t \in StoreTimes :
          /\ db' = addVcSeconds(db, u, SessionDelta(t, start), t)
          /\ cl' = [StoreLog("flush", u, db, SessionDelta(t, start), t, start) EXCEPT
                       !.sum[u] = @ + SessionDelta(t, start), !.added = @ \cup {u}]

\* upsertMessage.run({ ts })
StoreMessage ==
    /\ StoreStep
    /\ \E u \in StoreKeys, ts \in StoreTimes :
          /\ db' = upsertMessage(db, u, ts)
          /\ cl' = StoreLog("message", u, db, 0, ts, 0)

\* upsertVcJoin.run({ ts })
StoreJoin ==
    /\ StoreStep
    /\ \E u \in StoreKeys, ts \in StoreTimes :
          /\ db' = upsertVcJoin(db, u, ts)
          /\ cl' = StoreLog("join", u, db, 0, ts, 0)

\* getActivityRow, as the scan calls it
StoreRead ==
    /\ StoreStep
    /\ \E u \in StoreKeys :
          /\ db' = db
          /\ cl' = [StoreLog("read", u, db, 0, 0, 0) EXCEPT
                       !.seen = Some(getActivityRow(db, u))]

NextStore == StoreAdd \/ StoreFlush \/ StoreMessage \/ StoreJoin \/ StoreRead

SpecStore == InitStore /\ [][NextStore]_vars

----------------------------------------------------------------------------
(* The scanner on its own: scanInactive called once, on a table, a guild   *)
(* and arguments of bounded sets                                            *)

\* windows up to and beyond the days since the epoch (BootTime is day 180)
ScanDays == {0, 1, DEFAULT_INACTIVITY_DAYS, 2 * DEFAULT_INACTIVITY_DAYS,
             2 * DEFAULT_INACTIVITY_DAYS + 1}
ScanMinVcMinutes == {-1, 0, 1}

\* tables in which u1 has a row or none, and nobody else has one
ScanTables ==
    {<< >>} \cup
    {("u1" :> NewRow(lm, lv, Some(total))) :
        lm \in Nullable({BootTime - msFromDays(2), BootTime}),
        lv \in Nullable({BootTime - msFromDays(2)}),
        total \in {0, 60}}

\* the members whose row the store fails to read
LookupFailures == {{}, {"u1"}, {"u2"}}

InitScan ==
    /\ db \in ScanTables
    /\ settings = Null
    \* u1 may be connected to voice since the join that its row records
    /\ \E connected \in BOOLEAN :
          /\ connected => /\ db # << >>
                          /\ db["u1"].last_vc_at = Some(BootTime - msFromDays(2))
          /\ activeVcSessions =
                [u \in Members |-> IF connected /\ u = "u1"
                                   THEN Some(BootTime - msFromDays(2)) ELSE Null]
          /\ voiceCh = [u \in Members |-> IF connected /\ u = "u1"
                                          THEN Some("v1") ELSE Null]
    /\ present = Members
    /\ admins \in {{}, {"u1"}}
    /\ roleHolders \in {{}, {"u2"}}
    /\ task = Idle
    /\ lastKick = Null
    /\ segStart = [u \in Members |-> Null]
    /\ segSum = [u \in Members |-> 0]
    /\ runStart = [u \in Members |-> Null]
    /\ runSum = [u \in Members |-> 0]
    /\ steps = 0
    /\ \E t \in ClockValues, days \in ScanDays, minVcMinutes \in ScanMinVcMinutes,
          excludeRoleId \in RoleOptions, fetchOk \in BOOLEAN,
          failing \in LookupFailures :
          cl = [pc |-> "called", now |-> t, days |-> days,
                minVcMinutes |-> minVcMinutes, excludeRoleId |-> excludeRoleId,
                fetchOk |-> fetchOk, failing |-> failing,
                before |-> db, members |-> {},
                rows |-> << >>, list |-> << >>]

\* scanInactive(guild, days, minVcMinutes, excludeRoleId), from call to return
ScanCall ==
    /\ cl.pc = "called"
    /\ LET members == fetchAllMembers(cl.fetchOk, present)
       IN  /\ db' = ScanWrites(db, members)
           /\ cl' = IF scanInactiveThrows(members, admins, roleHolders,
                                          cl.excludeRoleId, cl.failing)
                    THEN [cl EXCEPT !.pc = "threw", !.members = members]
                    ELSE
                     [cl EXCEPT
                        !.pc = "returned", !.members = members,
                        !.rows = [u \in members |-> getActivityRow(db, u)],
                        !.list = scanInactive(members, db, admins, roleHolders,
                                              ScanCutoff(cl.now, cl.days),
                                              ScanMinVcSeconds(cl.minVcMinutes),
                                              cl.excludeRoleId)]
    /\ UNCHANGED <<settings, activeVcSessions, voiceCh, present, admins, roleHolders,
                   task, lastKick, segStart, segSum, runStart, runSum, steps>>

NextScan == ScanCall

SpecScan == InitScan /\ [][NextScan]_vars

----------------------------------------------------------------------------
(* The two live handlers on their own, with a store that may fail, and the  *)
(* restart of the process                                                   *)

MaxLiveEvents == 3
MaxLiveClock == 2

\* the clock read by the handlers, at steps of a second and a half
LiveTimes == {BootTime + k * (TicksPerSecond + 1) : k \in 0..MaxLiveClock}

LiveMember == "u1"

NoEvent ==
    [kind |-> "none", t |-> 0, oldCh |-> Null, newCh |-> Null, failing |-> {},
     threw |-> FALSE, row |-> NewRow(Null, Null, Some(0)), present |-> FALSE,
     start |-> Null]

\* the event just handled and what it found: the channels, the row of the
\* member, whether the table held one, and the tracked start
LiveEvent(kind, t, oldCh, newCh, failing, threw) ==
    [kind |-> kind, t |-> t, oldCh |-> oldCh, newCh |-> newCh, failing |-> failing,
     threw |-> threw, row |-> getActivityRow(db, LiveMember),
     present |-> LiveMember \in DOMAIN db, start |-> activeVcSessions[LiveMember]]

InitLive ==
    /\ db = << >>
    /\ settings = Null
    /\ activeVcSessions = [u \in Members |-> Null]
    /\ voiceCh = [u \in Members |-> Null]
    /\ present = Members
    /\ admins = {}
    /\ roleHolders = {}
    /\ task = Idle
    /\ lastKick = Null
    /\ segStart = [u \in Members |-> Null]
    /\ segSum = [u \in Members |-> 0]
    /\ runStart = [u \in Members |-> Null]
    /\ runSum = [u \in Members |-> 0]
    /\ steps = 0
    /\ cl = [pc |-> "live", last |-> NoEvent,
             \* history of the connected period: the join that began it, the
             \* total then, the moves since, the time of the last event, and
             \* whether since the join the clock never went back, no flush
             \* threw and the process was not restarted
             joinAt |-> Null, totalAtJoin |-> 0, moves |-> 0, lastAt |-> 0,
             clean |-> FALSE,
             \* history: whether a statement has thrown so far, and whether
             \* the flush of the latest disconnect threw
             faulted |-> FALSE, dropped |-> FALSE]

LiveStep ==
    /\ cl.pc = "live"
    /\ steps < MaxLiveEvents /\ steps' = steps + 1
    /\ UNCHANGED <<settings, present, admins, roleHolders, task, lastKick,
                   segStart, segSum, runStart, runSum>>

\* client.on('messageCreate') for a message of the member
LiveMessage ==
    /\ LiveStep
    /\ \E t \in LiveTimes, threw \in BOOLEAN :
          /\ db' = IF threw THEN db ELSE upsertMessage(db, LiveMember, t)
          /\ cl' = [cl EXCEPT !.pc = ListenerAfter(threw),
                              !.last = LiveEvent("message", t, Null, Null, {}, threw),
                              !.faulted = @ \/ threw]
    /\ UNCHANGED <<activeVcSessions, voiceCh>>

\* client.on('voiceStateUpdate') for the member
LiveVoice ==
    /\ LiveStep
    /\ \E newCh \in Nullable(VoiceChannels), t \in LiveTimes, failing \in StoreFaults :
          LET u == LiveMember
              oldCh == voiceCh[u]
              joined == oldCh = Null /\ newCh # Null
              moved == oldCh # Null /\ newCh # Null /\ oldCh # newCh
              threw == VoiceThrows(activeVcSessions, u, oldCh, newCh, failing)
          IN  /\ voiceCh' = [voiceCh EXCEPT ![u] = newCh]
              /\ activeVcSessions' =
                    VoiceSessionsFailing(activeVcSessions, u, oldCh, newCh, t, failing)
              /\ db' = VoiceStoreFailing(db, activeVcSessions, u, oldCh, newCh, t, failing)
              /\ cl' = [cl EXCEPT
                           !.pc = ListenerAfter(threw),
                           !.last = LiveEvent("voice", t, oldCh, newCh, failing, threw),
                           !.faulted = @ \/ threw,
                           !.dropped = IF oldCh # newCh THEN newCh = Null /\ threw
                                       ELSE @,
                           !.joinAt = IF joined THEN Some(t) ELSE @,
                           !.totalAtJoin =
                               IF joined
                               THEN Coalesce(getActivityRow(db, u).vc_seconds_total, 0)
                               ELSE @,
                           !.moves = IF joined THEN 0 ELSE IF moved THEN @ + 1 ELSE @,
                           !.lastAt = IF oldCh # newCh THEN t ELSE @,
                           !.clean = IF joined THEN TRUE
                                     ELSE IF oldCh # newCh
                                     THEN @ /\ t >= cl.lastAt /\ ~threw
                                     ELSE @]

\* the process is restarted between two events
LiveRestart ==
    /\ LiveStep
    /\ cl.last.kind # "restart"
    /\ activeVcSessions' = [u \in Members |-> Null]
    /\ cl' = [cl EXCEPT !.last = LiveEvent("restart", 0, Null, Null, {}, FALSE),
                        !.clean = FALSE]
    /\ UNCHANGED <<db, voiceCh>>

NextLive == LiveMessage \/ LiveVoice \/ LiveRestart

SpecLive == InitLive /\ [][NextLive]_vars

----------------------------------------------------------------------------
(* Properties *)

\* the stored total of a member, 0 where there is no row
VcTotal(u) == Coalesce(getActivityRow(db, u).vc_seconds_total, 0)

\* the stored last voice timestamp of a member, 0 where unset
LastVcAt(u) == Coalesce(getActivityRow(db, u).last_vc_at, 0)

C2_TotalNonNegativeAndMonotone ==
    [][/\ DOMAIN db \subseteq DOMAIN db'
       /\ \A u \in DOMAIN db' : VcTotal(u) >= 0 /\ VcTotal(u)' >= VcTotal(u)]_vars

\* a move closed a segment of sixty and a half seconds: the total grew to 60
\* and the member is still connected
C2_Witness_TotalGrewOnMove ==
    \E u \in Members :
       /\ voiceCh[u] # Null /\ activeVcSessions[u] # Null
       /\ VcTotal(u) = 60

\* C3: isInactiveByThreshold returns exactly
\* NOT(lastMessageAt >= cutoff OR lastVoiceAt >= cutoff OR
\*     (minVoiceSeconds > 0 AND voiceSecondsTotal >= minVoiceSeconds)),
\* unset values read as 0; with threshold 0 the total has no influence.
C3_ClassifierMatchesFormula ==
    cl.pc = "returned" =>
       LET lm == IF cl.row.last_message_at = Null THEN 0 ELSE cl.row.last_message_at[1]
           lv == IF cl.row.last_vc_at = Null THEN 0 ELSE cl.row.last_vc_at[1]
           total == IF cl.row.vc_seconds_total = Null THEN 0
                    ELSE cl.row.vc_seconds_total[1]
           recent == lm >= cl.cutoffMs \/ lv >= cl.cutoffMs
       IN  /\ cl.result = ~(recent \/ (cl.minVcSeconds > 0 /\ total >= cl.minVcSeconds))
           /\ cl.minVcSeconds = 0 => cl.result = ~recent

\* a member with old timestamps is kept only by the voice quota
C3_Witness_KeptByQuotaAlone ==
    /\ cl.pc = "returned" /\ cl.result = FALSE
    /\ cl.row.last_message_at # Null /\ cl.row.last_message_at[1] < cl.cutoffMs
    /\ cl.row.last_vc_at # Null /\ cl.row.last_vc_at[1] < cl.cutoffMs
    /\ cl.minVcSeconds = 60 /\ cl.row.vc_seconds_total = Some(60)

ScanKinds == {"inactive-scan", "inactive-kick", "cron-inactive-report"}

\* C4: the list a scan returns holds no bot, not the owner, no administrator
\* and, when an exclude role is given, no holder of that role.
C4_ScanResultExcludesProtected ==
    [][(task.pc = "fetch" /\ task.kind \in ScanKinds /\ task'.kind = task.kind) =>
          \A i \in 1..Len(task'.list) :
             LET u == task'.list[i]
             IN  /\ u \notin Bots /\ u # ownerId /\ u \notin admins
                 /\ task.excludeRoleId # Null => u \notin roleHolders]_vars

\* a scan has returned: an administrator and a holder of the exclude role, both
\* without any recorded activity, are left out of an otherwise empty list
C4_Witness_AdminAndRoleHolderLeftOut ==
    /\ task.kind = "inactive-scan" /\ task.pc = "done" /\ task.reply = "listed"
    /\ admins = {"u1"} /\ roleHolders = {"u2"}
    /\ "u1" \notin DOMAIN db /\ "u2" \notin DOMAIN db
    /\ task.list = << >>


\* C5: kickMembers never removes a member who, at its re-fetch, is a bot, the
\* owner or an administrator (even one listed by the scan before gaining the
\* protection), and attempts no removal of a member whose re-fetch failed.
C5_KickSkipsProtectedAndUnfetched ==
    lastKick # Null =>
       LET k == lastKick[1]
           protected == k.id \in Bots \/ k.id = ownerId \/ k.admin
       IN  /\ k.removed => k.attempted
           /\ k.attempted => k.fetched /\ ~protected
           /\ ~k.removed => k.id \in present

\* a listed member became an administrator between the scan and the re-fetch:
\* fetched, not kicked, still a member
C5_Witness_PromotedAfterScanIsSkipped ==
    /\ lastKick # Null
    /\ lastKick[1].id = "u1" /\ lastKick[1].fetched /\ lastKick[1].admin
    /\ ~lastKick[1].attempted
    /\ task.kind = "inactive-kick" /\ task.list[1] = "u1"
    /\ "u1" \in present

ReadOnlyKinds == {"inactive-scan", "cron-inactive-report", "cron-health-snapshot"}

\* C6: members are removed only by the inactive-kick handler; no step of the
\* two scheduled jobs or of the inactive-scan handler removes a member or
\* writes to the activity table.
C6_OnlyInactiveKickRemoves ==
    [][/\ present' # present => task.kind = "inactive-kick" /\ task.pc = "kick"
       /\ (task' # task /\ (task.kind \in ReadOnlyKinds \/ task'.kind \in ReadOnlyKinds))
             => db' = db /\ present' = present]_vars

\* the daily report has listed inactive members and everybody is still there
C6_Witness_ReportListsAndKeepsMembers ==
    /\ task.kind = "cron-inactive-report" /\ task.pc = "done"
    /\ Len(task.list) >= 2
    /\ present = Members /\ lastKick = Null

\* C7 as stated: inactive-kick proceeds only when confirm equals "true".
\* Refuted: " True" is lower-cased and trimmed first, and proceeds.
C7_ProceedsOnlyOnExactTrue ==
    (task.kind = "inactive-kick" /\ task.pc = "fetch")
       => task.confirm = Some(<<"t", "r", "u", "e">>)

\* C7 amended: inactive-kick proceeds only when confirm, lower-cased and with
\* the surrounding white space removed, equals "true"; for any other value
\* or none it returns at once with a reply, having fetched no member list,
\* removed nobody and changed no state.
C7_ProceedsOnlyOnNormalizedTrue ==
    [][(task.kind = "inactive-kick" /\ task.pc = "start") =>
          LET given == IF task.confirm = Null THEN << >> ELSE task.confirm[1]
              isTrue == trim(toLowerCase(given)) = <<"t", "r", "u", "e">>
          IN  /\ task'.pc = "fetch" => isTrue
              /\ ~isTrue => /\ task'.pc = "done" /\ task'.reply # ""
                            /\ task'.work = {} /\ task'.list = << >>
                            /\ UNCHANGED <<db, settings, present, activeVcSessions,
                                           lastKick>>]_vars

\* an invocation with confirm " True" is past the confirmation and awaits its
\* member list
C7_Witness_PaddedCapitalTrueProceeds ==
    /\ task.kind = "inactive-kick" /\ task.pc = "fetch"
    /\ task.confirm = Some(<<" ", "T", "r", "u", "e">>)
    /\ "memberList" \in task.work

\* the capability a command requires of its caller
HasRequiredCapability(tk) ==
    /\ tk.kind \in {"inactive-scan", "inactive-kick", "debug-activity"} => tk.callerKick
    /\ tk.kind \in ManageCommands => tk.callerManage

\* C8: a command whose caller lacks the capability it requires (Kick Members
\* for inactive-scan, inactive-kick and debug-activity; Manage Server for
\* hydrate-history and the three channel settings) is rejected before any
\* work: a reply, nothing read, fetched, written or removed.
C8_RejectedBeforeAnyWork ==
    [][(task.pc = "start" /\ task.kind \in Commands /\ ~HasRequiredCapability(task)) =>
          /\ task'.pc = "done"
          /\ task'.reply \in {"use-in-server", "need-kick-members", "need-manage-server"}
          /\ task'.work = {}
          /\ UNCHANGED <<db, settings, present, activeVcSessions, lastKick>>]_vars

\* a caller with Kick Members but without Manage Server asked for a history
\* hydration and was turned away
C8_Witness_HydrateWithoutManageRejected ==
    /\ task.kind = "hydrate-history" /\ task.pc = "done"
    /\ task.inGuild /\ task.callerKick /\ ~task.callerManage
    /\ task.reply = "need-manage-server" /\ task.work = {}

\* C9 as stated: inactive-scan and inactive-kick classify only with a window
\* of at least 0 days: the cutoff is now - days * 86400000 and never later
\* than now, and the threshold is max(0, minVcMinutes) * 60.  Refuted: a
\* negative days option is used as given and puts the cutoff after now.
C9_WindowNeverNegative ==
    (task.pc = "fetch" /\ task.kind \in {"inactive-scan", "inactive-kick"}) =>
       /\ task.cutoff = task.now - msFromDays(task.days[1])
       /\ task.minVcSeconds = Max(0, task.minVcMinutes[1]) * 60
       /\ task.minVcSeconds >= 0
       /\ task.days[1] >= 0
       /\ task.cutoff <= task.now

\* C10 as stated: no voice join lowers the stored last_vc_at (the new value
\* is the larger of the stored one and the event's).  Refuted: upsertVcJoin
\* overwrites the column with the event's timestamp.
C10_LastVcAtNeverDecreases ==
    [][\A u \in Members : LastVcAt(u)' >= LastVcAt(u)]_vars


\* the columns of the row a statement found, with the defaults of a new row
BeforeMessageAt == IF cl.before = Null THEN Null ELSE cl.before[1].last_message_at
BeforeVcAt == IF cl.before = Null THEN Null ELSE cl.before[1].last_vc_at
BeforeTotal ==
    IF cl.before = Null THEN 0
    ELSE IF cl.before[1].vc_seconds_total = Null THEN 0
    ELSE cl.before[1].vc_seconds_total[1]

C12_NoIncrementLostNoTornRow ==
    /\ \A u \in StoreKeys :
          /\ Coalesce(getActivityRow(db, u).vc_seconds_total, 0) = cl.base[u] + cl.sum[u]
          /\ u \in cl.added => u \in DOMAIN db /\ db[u].last_vc_at # Null
    /\ cl.op = "read" =>
          /\ cl.seen # Null
          /\ Coalesce(cl.seen[1].vc_seconds_total, 0) = cl.base[cl.key] + cl.sum[cl.key]
          /\ cl.key \in cl.added => cl.seen[1].last_vc_at # Null

\* a read follows an addVcSeconds on the same key and sees both columns set
C12_Witness_ReadAfterAddSeesBoth ==
    /\ cl.op = "read" /\ cl.key \in cl.added /\ cl.sum[cl.key] = 2
    /\ cl.seen # Null
    /\ cl.seen[1].vc_seconds_total = Some(cl.base[cl.key] + 2)
    /\ cl.seen[1].last_vc_at # Null

\* C13: upsertMessage creates the row if absent and sets last_message_at to
\* the timestamp given, whatever was stored, leaving last_vc_at and
\* vc_seconds_total alone; run again with the same key and timestamp it
\* leaves the table as it is.
C13_MessageUpsertOverwritesAndIsIdempotent ==
    cl.op = "message" =>
       /\ cl.key \in DOMAIN db
       /\ db[cl.key].last_message_at = Some(cl.ts)
       /\ db[cl.key].last_vc_at = BeforeVcAt
       /\ db[cl.key].vc_seconds_total = Some(BeforeTotal)
       /\ upsertMessage(db, cl.key, cl.ts) = db

\* the statement ran on a row with a later last_message_at, a last_vc_at and
\* a total of 60: the timestamp is replaced, the rest is untouched
C13_Witness_OlderTimestampReplacesNewer ==
    /\ cl.op = "message" /\ BeforeMessageAt # Null /\ BeforeMessageAt[1] > cl.ts
    /\ BeforeVcAt # Null /\ BeforeTotal = 60
    /\ db[cl.key] = NewRow(Some(cl.ts), BeforeVcAt, Some(60))


\* the stored last message timestamp of a member in a table, 0 where unset
LastMessageAt(d, u) == Coalesce(getActivityRow(d, u).last_message_at, 0)

HydrationComplete ==
    /\ task.kind = "hydrate-history" /\ task.pc = "done"
    /\ task.reply = "hydrate-complete"

\* C14 as stated: after live message events and hydration runs in any order,
\* last_message_at is the timestamp of the most recent message recorded for
\* the member; a later write never replaces it with an older one.  Taken
\* over a hydration run: the value after the run is not below the value
\* before it.  Refuted: the run writes every message it scans in the window,
\* newest first, over whatever is stored.
C14_HydrationKeepsMostRecentMessage ==
    HydrationComplete =>
       \A u \in Members : LastMessageAt(db, u) >= LastMessageAt(task.dbBefore, u)

\* the cutoffs of scans with a window of a day and of the default window
RecentCutoffs == {ScanCutoff(t, days) : t \in ClockValues, days \in {1, DEFAULT_INACTIVITY_DAYS}}

\* C15 as stated: a member classified active for a cutoff before a hydration
\* run is classified active for the same cutoff after it, live message events
\* interleaved or not.  Refuted: the run replaces a recent last_message_at by
\* the timestamp of an older message of the history.
C15_HydrationNeverMakesInactive ==
    HydrationComplete =>
       \A u \in Members, cutoff \in RecentCutoffs :
          ~isInactiveByThreshold(getActivityRow(task.dbBefore, u), cutoff, 0)
             => ~isInactiveByThreshold(getActivityRow(db, u), cutoff, 0)


\* the members of a sequence
Listed(list) == {list[i] : i \in 1..Len(list)}

\* the members a scan may list at all: in the listing, not a bot, not the
\* owner, not an administrator, not a holder of the exclude role when given
Eligible(members, excludeRoleId) ==
    {u \in members :
        /\ u \notin Bots /\ u # ownerId /\ u \notin admins
        /\ excludeRoleId # Null => u \notin roleHolders}

UnsetRow == NewRow(Null, Null, Some(0))

\* C16 as stated: for a member without a stored row getActivityRow returns
\* the default (timestamps unset, total 0) and creates no row, and a scan
\* with any window days >= 0 and any min_vc_minutes lists the member unless
\* protected or excluded.  Refuted: with a window that reaches back to the
\* epoch the cutoff is 0 or less, the unset timestamps read as 0 reach it,
\* and the member is classified active.
C16_NoRowMeansInactive ==
    cl.pc = "returned" =>
       \A u \in cl.members \ DOMAIN cl.before :
          /\ cl.rows[u] = UnsetRow /\ u \notin DOMAIN db
          /\ cl.days >= 0 /\ u \in Eligible(cl.members, cl.excludeRoleId)
                => u \in Listed(cl.list)

\* C16 amended: for a member without a stored row getActivityRow returns the
\* default and creates no row, and a scan with any window days >= 0 whose
\* cutoff now - days * 86400000 is greater than 0, and any min_vc_minutes,
\* lists the member unless protected or excluded; when the cutoff is 0 or
\* less the member is not listed.
C16_NoRowMeansInactiveForPositiveCutoff ==
    cl.pc = "returned" =>
       \A u \in cl.members \ DOMAIN cl.before :
          /\ cl.rows[u] = UnsetRow /\ u \notin DOMAIN db
          /\ cl.days >= 0 /\ u \in Eligible(cl.members, cl.excludeRoleId)
                => (u \in Listed(cl.list) <=> cl.now - msFromDays(cl.days) > 0)

\* a scan with the default window and a positive quota has listed both
\* members without a row, and the table is still empty
C16_Witness_MembersWithoutRowListed ==
    /\ cl.pc = "returned" /\ cl.days = DEFAULT_INACTIVITY_DAYS /\ cl.minVcMinutes = 1
    /\ cl.fetchOk /\ admins = {} /\ cl.excludeRoleId = Null
    /\ db = << >> /\ cl.list = <<"u1", "u2">>


\* the positive voice quotas a scan can be given, in seconds
QuotaThresholds == {ScanMinVcSeconds(m) : m \in 1..2}

\* a step of the scan itself: scanInactive is entered or returns
ScanStep ==
    /\ task.kind \in ScanKinds /\ task'.kind = task.kind
    /\ task.pc \in {"start", "fetch"} /\ task' # task

\* C17: a member whose voice total has reached a positive quota is not
\* returned by a scan with that quota, whatever the two timestamps are, and
\* since no step lowers the total a quota once reached stays reached.
C17_QuotaOverrideIsPermanent ==
    [][/\ \A u \in DOMAIN db, q \in QuotaThresholds :
             VcTotal(u) >= q => VcTotal(u)' >= q
       /\ (ScanStep /\ task.pc = "fetch" /\ task.minVcSeconds > 0)
             => \A u \in Listed(task'.list) : VcTotal(u) < task.minVcSeconds]_vars

\* a scan whose cutoff lies after every timestamp and whose quota is 60 s
\* has skipped u1, whose total is 60 s, and listed u2
C17_Witness_QuotaReachedNotListed ==
    /\ task.kind = "inactive-scan" /\ task.pc = "done" /\ task.reply = "listed"
    /\ task.minVcSeconds = 60 /\ VcTotal("u1") = 60
    /\ LastVcAt("u1") < task.cutoff
    /\ "u1" \notin admins /\ ~task.fetchFailed
    /\ task.list = <<"u2">>

\* the place of a member in the listing
Place(u) == CHOOSE i \in 1..Len(MemberOrder) : MemberOrder[i] = u

\* C18: scanInactive returns exactly the members of the listing that are
\* not protected, not holders of the exclude role when one is given, and
\* inactive by isInactiveByThreshold for the cutoff and quota; each once,
\* in the order of the listing.
C18_ScanListsExactlyTheInactive ==
    cl.pc = "returned" =>
       /\ Listed(cl.list) =
             {u \in Eligible(cl.members, cl.excludeRoleId) :
                 isInactiveByThreshold(cl.rows[u], cl.now - msFromDays(cl.days),
                                       Max(0, cl.minVcMinutes) * 60)}
       /\ \A i, j \in 1..Len(cl.list) : i < j => Place(cl.list[i]) < Place(cl.list[j])

\* of two eligible members the one with a message inside the window is
\* left out and the other is listed
C18_Witness_ActiveLeftOutInactiveListed ==
    /\ cl.pc = "returned" /\ cl.fetchOk /\ cl.days = 1
    /\ admins = {} /\ roleHolders = {} /\ cl.excludeRoleId = Null
    /\ "u1" \in DOMAIN db /\ db["u1"].last_message_at = Some(BootTime)
    /\ cl.list = <<"u2">>

\* C19: a scan changes no stored record, no stored settings and no entry of
\* the map of voice sessions.
C19_ScanIsReadOnly ==
    [][ScanStep => UNCHANGED <<db, settings, activeVcSessions>>]_vars

\* a scan has returned a list while a member is in voice, and the table
\* holds the row of that member only
C19_Witness_ScanDoneTableAsBefore ==
    /\ task.kind = "inactive-scan" /\ task.pc = "done" /\ task.reply = "listed"
    /\ activeVcSessions["u1"] # Null
    /\ DOMAIN db = {"u1"} /\ "u2" \in Listed(task.list)

\* C20: when the full member fetch fails the scan fails as a whole and the
\* failure reaches the caller: no list is made from partial data and a
\* removal command removes nobody.  Violated: fetchAllMembers catches the
\* failure, the scan goes on over the cache, and inactive-kick removes the
\* members listed from it.
C20_FetchFailureFailsTheScan ==
    (task.kind \in ScanKinds /\ task.fetchFailed) =>
       /\ task.list = << >>
       /\ task.reply \notin {"listed", "kicked", "sent", "logged"}
       /\ task.pc \notin {"kick", "send"}


\* C21: when the member fetch times out the scan does not fail: scanInactive
\* returns, and what it classified is exactly the members the cache holds.
C21_TimeoutScansTheCache ==
    (cl.pc # "called" /\ ~cl.fetchOk /\ cl.failing = {}) =>
       /\ cl.pc = "returned"
       /\ cl.members = present \cap CachedMembers
       /\ DOMAIN cl.rows = present \cap CachedMembers
       /\ Listed(cl.list) \subseteq CachedMembers
       /\ \A u \in Eligible(present \cap CachedMembers, cl.excludeRoleId) :
             u \in Listed(cl.list) <=>
                isInactiveByThreshold(getActivityRow(cl.before, u),
                                      ScanCutoff(cl.now, cl.days),
                                      ScanMinVcSeconds(cl.minVcMinutes))

\* after a timeout the scan has returned u1, inactive and in the cache, and
\* not u2, inactive as well but absent from the cache
C21_Witness_CachedMemberListedAfterTimeout ==
    /\ cl.pc = "returned" /\ ~cl.fetchOk
    /\ "u2" \in present /\ "u2" \notin cl.members
    /\ cl.list = <<"u1">>


\* C22: when the store fails to read the row of one member during a scan,
\* the scan is not aborted: a result is returned, the other members are
\* classified, and the failing member is taken to have the default row.
\* Violated: getActivityRow is called without a try, the exception leaves
\* the loop and scanInactive rejects without a result.
C22_LookupFailureDoesNotAbort ==
    cl.pc # "called" =>
       /\ cl.pc = "returned"
       /\ \A u \in Eligible(cl.members, cl.excludeRoleId) :
             u \in Listed(cl.list) <=>
                isInactiveByThreshold(
                    IF u \in cl.failing THEN UnsetRow ELSE getActivityRow(cl.before, u),
                    ScanCutoff(cl.now, cl.days), ScanMinVcSeconds(cl.minVcMinutes))


\* one turn of the loop of kickMembers
KickTurn == task.pc = "kick" /\ task'.kind = task.kind /\ task' # task

\* C23: kickMembers takes every identifier of its input in turn: after a
\* turn, whether the re-fetch or the kick failed or not, the loop is at the
\* next identifier or has returned after the last one; the returned list
\* grows by the identifier exactly when its kick succeeded, so it holds the
\* removed members only, in input order, and is never longer than the input.
C23_KickMembersProcessesEveryId ==
    [][KickTurn =>
          /\ task'.list = task.list
          /\ IF task.idx = Len(task.list)
             THEN task'.pc = "done" /\ task'.reply = "kicked"
             ELSE task'.pc = "kick" /\ task'.idx = task.idx + 1
          /\ task'.kicked = IF task.list[task.idx] \in present \ present'
                            THEN Append(task.kicked, task.list[task.idx])
                            ELSE task.kicked
          /\ task'.kicked = SelectSeq(task.list, LAMBDA u : u \in Listed(task'.kicked))
          /\ Len(task'.kicked) <= Len(task'.list)
          /\ Listed(task'.kicked) \cap present' = {}]_vars

\* of two listed members the first was not removed and the second, taken
\* after it, was
C23_Witness_SecondKickedAfterFirstFailed ==
    /\ task.kind = "inactive-kick" /\ task.pc = "done" /\ task.reply = "kicked"
    /\ task.list = <<"u1", "u2">> /\ task.kicked = <<"u2">>
    /\ "u1" \in present /\ "u2" \notin present


\* a channel the bot cannot use as a target: not text-based or not viewable
\* (an option that names no channel of the guild resolves to nothing and is
\* treated as not text-based)
UnusableTarget(ch) == ~isTextBased(ch) \/ ~viewable(ch)

\* C25: a command given a target channel that does not exist, is not
\* text-based or cannot be read by the bot (modlog-set, healthlog-set,
\* chat-set, and hydrate-history with a channel option) is rejected at once
\* with a message that says why, and neither table is changed.  Violated:
\* hydrate-history does not test its channel option; it announces the run
\* and reports it complete with no channel scanned.
C25_UnusableTargetChannelRejected ==
    (/\ task.pc = "done" /\ task.kind \in SetCommands \cup {"hydrate-history"}
     /\ task.target # Null /\ UnusableTarget(task.target[1])) =>
       /\ task.reply = "choose-a-text-channel"
       /\ task.work \cap {"settingsWrite", "storeWrite"} = {}


\* the row of the member of the live events
LiveRow == getActivityRow(db, LiveMember)

\* C24: when a statement of user_activity throws while a message or a voice
\* event is handled, the handler catches it and returns, so the listener
\* stays live; the row the failed statement was to write is as the statement
\* found it (the row before the event, or after the flush when the flush of
\* a move went through and its join threw); and an event handled after a
\* failure takes effect as usual.
C24_StoreFailureIsCaught ==
    /\ cl.pc = "live"
    /\ cl.last.threw =>
          IF "join" \in cl.last.failing /\ cl.last.oldCh # Null /\ Truthy(cl.last.start)
          THEN /\ LiveRow.vc_seconds_total =
                     Some(cl.last.row.vc_seconds_total[1]
                             + Max(0, (cl.last.t - cl.last.start[1]) \div TicksPerSecond))
               /\ LiveRow.last_message_at = cl.last.row.last_message_at
          ELSE /\ LiveRow = cl.last.row
               /\ (LiveMember \in DOMAIN db) = cl.last.present
    /\ (cl.last.kind = "message" /\ ~cl.last.threw) =>
          LiveRow.last_message_at = Some(cl.last.t)
    /\ (cl.last.kind = "voice" /\ ~cl.last.threw /\ cl.last.oldCh = Null
           /\ cl.last.newCh # Null) =>
          /\ LiveRow.last_vc_at = Some(cl.last.t)
          /\ activeVcSessions[LiveMember] = Some(cl.last.t)

\* a statement threw for an earlier event; the message that came after it
\* is recorded
C24_Witness_MessageRecordedAfterFailure ==
    /\ cl.pc = "live" /\ cl.faulted
    /\ cl.last.kind = "message" /\ ~cl.last.threw /\ ~cl.last.present
    /\ LiveRow.last_message_at = Some(cl.last.t)


\* the member has just disconnected, at the end of a connected period that
\* began with a handled join and in which the clock never went back, no
\* flush threw and the process was not restarted
CleanDisconnect ==
    /\ cl.last.kind = "voice" /\ cl.last.oldCh # Null /\ cl.last.newCh = Null
    /\ cl.joinAt # Null /\ cl.clean

\* the seconds credited since the join, and the whole seconds from the join
\* to the last event
CreditedSinceJoin == LiveRow.vc_seconds_total[1] - cl.totalAtJoin
WholeSecondsSinceJoin == (cl.last.t - cl.joinAt[1]) \div TicksPerSecond

JustJoined == cl.last.kind = "voice" /\ cl.last.oldCh = Null /\ cl.last.newCh # Null
JustMoved ==
    /\ cl.last.kind = "voice" /\ cl.last.oldCh # Null /\ cl.last.newCh # Null
    /\ cl.last.oldCh # cl.last.newCh
JustLeft == cl.last.kind = "voice" /\ cl.last.oldCh # Null /\ cl.last.newCh = Null

\* C27 as stated: after a join the map holds start = now for the member and
\* last_vc_at = now, after a move it holds start = now, after a disconnect
\* it holds no entry; so an entry exists only while the latest presence
\* event left the member connected.  Refuted when a statement throws: the
\* entry of a disconnect whose flush threw is not deleted.
C27_SessionMapAgreesWithPresence ==
    /\ JustJoined => /\ activeVcSessions[LiveMember] = Some(cl.last.t)
                     /\ LiveRow.last_vc_at = Some(cl.last.t)
    /\ JustMoved => activeVcSessions[LiveMember] = Some(cl.last.t)
    /\ JustLeft => activeVcSessions[LiveMember] = Null
    /\ activeVcSessions[LiveMember] # Null => voiceCh[LiveMember] # Null

\* C27 amended: after a presence event whose statements did not throw the
\* map agrees with the event (join: start = now and last_vc_at = now; move:
\* start = now; disconnect: no entry).  When the flush of a disconnect or of
\* a move throws, the entry stays as it was; when the join statement throws,
\* start = now is kept and last_vc_at is not written.  So an entry exists
\* only if the latest presence event left the member connected or was a
\* disconnect whose flush threw.
C27_SessionMapAgreesUnlessWriteFailed ==
    /\ (JustJoined /\ ~cl.last.threw) =>
          /\ activeVcSessions[LiveMember] = Some(cl.last.t)
          /\ LiveRow.last_vc_at = Some(cl.last.t)
    /\ (JustJoined /\ cl.last.threw) =>
          /\ activeVcSessions[LiveMember] = Some(cl.last.t)
          /\ LiveRow.last_vc_at = cl.last.row.last_vc_at
    /\ (JustMoved /\ (~cl.last.threw \/ "join" \in cl.last.failing)) =>
          activeVcSessions[LiveMember] = Some(cl.last.t)
    /\ (JustLeft /\ ~cl.last.threw) => activeVcSessions[LiveMember] = Null
    /\ ((JustLeft \/ JustMoved) /\ cl.last.threw /\ "add" \in cl.last.failing) =>
          activeVcSessions[LiveMember] = cl.last.start
    /\ activeVcSessions[LiveMember] # Null =>
          voiceCh[LiveMember] # Null \/ cl.dropped

\* a tracked session was closed by a disconnect: the entry is gone
C27_Witness_EntryRemovedAtDisconnect ==
    /\ JustLeft /\ ~cl.last.threw /\ Truthy(cl.last.start)
    /\ activeVcSessions[LiveMember] = Null /\ voiceCh[LiveMember] = Null


\* C28: a voice event that leaves the member in the same channel (mute,
\* deafen) or leaves them not connected changes nothing: the session map
\* and the table are as before the event, and no statement is reached.
C28_SameChannelEventChangesNothing ==
    (cl.last.kind = "voice" /\ cl.last.oldCh = cl.last.newCh) =>
       /\ activeVcSessions[LiveMember] = cl.last.start
       /\ LiveRow = cl.last.row
       /\ (LiveMember \in DOMAIN db) = cl.last.present
       /\ ~cl.last.threw

\* the member, connected with a tracked session and a stored row, has had
\* an event in the same channel
C28_Witness_SameChannelEventWhileTracked ==
    /\ cl.last.kind = "voice" /\ cl.last.oldCh # Null /\ cl.last.oldCh = cl.last.newCh
    /\ Truthy(cl.last.start) /\ cl.last.present
    /\ cl.last.t > cl.last.start[1]


\* C29: a restart empties the session map and leaves the table as it was;
\* a disconnect or a move that then finds no tracked start for the member
\* leaves vc_seconds_total as it was (the disconnect leaves the whole row),
\* and the move opens a session with start = now and records the join.
C29_RestartDropsOpenSessions ==
    /\ cl.last.kind = "restart" =>
          /\ \A u \in Members : activeVcSessions[u] = Null
          /\ LiveRow = cl.last.row /\ (LiveMember \in DOMAIN db) = cl.last.present
    /\ (JustLeft /\ cl.last.start = Null) =>
          /\ LiveRow = cl.last.row /\ (LiveMember \in DOMAIN db) = cl.last.present
          /\ activeVcSessions[LiveMember] = Null
    /\ (JustMoved /\ cl.last.start = Null) =>
          /\ LiveRow.vc_seconds_total = cl.last.row.vc_seconds_total
          /\ activeVcSessions[LiveMember] = Some(cl.last.t)
          /\ ~cl.last.threw => LiveRow.last_vc_at = Some(cl.last.t)

\* the member joined, the process was restarted, and the disconnect that
\* came later than the join found no start: the total is still 0
C29_Witness_DisconnectAfterRestart ==
    /\ JustLeft /\ cl.last.start = Null /\ cl.last.present
    /\ cl.joinAt # Null /\ cl.last.t > cl.joinAt[1]
    /\ LiveRow.vc_seconds_total = Some(0)


\* the stored last voice timestamp of the member of the live events, and
\* what the event just handled found, 0 where unset
LiveLastVcAt == Coalesce(LiveRow.last_vc_at, 0)
FoundLastVcAt == Coalesce(cl.last.row.last_vc_at, 0)

----------------------------------------------------------------------------
(* Harness of the hydration of long channels: a /hydrate-history run over two
   channels whose history is longer than a page, from the listing of the
   channels to the follow-up, with page fetches and writes that may throw *)

\* the channels the run was given, in the order of channelsToScan
LongChannels == <<"h1", "h2">>

\* the number of messages each of the two channels holds
LongLengths == {0, 100, 250, 300}

\* the per_channel_limit option of the run
LongLimits == {1, 250, 20001}

\* the position in a history from which the messages are older than the window
LongOldFrom == {151, 1000}

\* the tables the run may find
LongTables ==
    {<< >>,
     ("u1" :> NewRow(Some(BootTime), Some(BootTime - msFromDays(2)), Some(60)))
        @@ ("b1" :> NewRow(Null, Some(BootTime - msFromDays(3)), Some(0)))}

\* the position of the message of a batch whose write throws; 0 when none does
WriteFailures == {0, 1, 2}

LongAuthor(i) == IF i % 7 = 0 THEN "b1" ELSE IF i % 2 = 0 THEN "u2" ELSE "u1"

LongTime(ch, i, oldFrom) ==
    (IF i >= oldFrom THEN BootTime - msFromDays(100) ELSE BootTime - msFromDays(1))
        - 2 * i + (IF ch = "h2" THEN 1 ELSE 0)

\* the history of a channel, newest first; ids grow with time
LongHistory(ch, n, oldFrom) ==
    [i \in 1..n |->
        Message((IF ch = "h2" THEN 1000 ELSE 0) + n - i + 1,
                LongAuthor(i), LongTime(ch, i, oldFrom))]

\* a variant of AfterThrow in which the exception ends the whole run
AfterThrowAborting(tk, batch, k) == Returned(tk, "something-went-wrong")

\* scanChannel when upsertMessage throws at the k-th message of the batch:
\* the exception leaves scanChannel and is swallowed by the loop over channels
AfterThrow(tk, batch, k) ==
    LET written == SubSeq(batch, 1, k - 1)
        recorded == SelectSeq(written, LAMBDA m : HydrateRecords(m, tk.cutoff))
        seen == [tk EXCEPT
                    !.out = Some([@[1] EXCEPT
                                     !.messagesScanned = @ + k,
                                     !.usersTouched = @ + Len(recorded)]),
                    !.work = IF recorded = << >> THEN @
                             ELSE @ \cup {"storeWrite"}]
        rest == [seen EXCEPT !.chans = Tail(@)]
    IN  IF rest.chans = << >> THEN Returned(rest, "hydrate-complete")
        ELSE ChannelEntered(rest)

NoRequest == [ch |-> "", limit |-> 0, before |-> Null, left |-> 0]

InitHydrate ==
    /\ db \in LongTables
    /\ settings = Null
    /\ activeVcSessions = [u \in Members |-> Null]
    /\ voiceCh = [u \in Members |-> Null]
    /\ present = Members
    /\ admins = {}
    /\ roleHolders = {}
    /\ lastKick = Null
    /\ segStart = [u \in Members |-> Null]
    /\ segSum = [u \in Members |-> 0]
    /\ runStart = [u \in Members |-> Null]
    /\ runSum = [u \in Members |-> 0]
    /\ steps = 0
    /\ \E pclRaw \in LongLimits, n \in LongLengths, oldFrom \in LongOldFrom :
          LET asked == [Idle EXCEPT !.kind = "hydrate-history", !.callerManage = TRUE]
              begun == HydrateBegun(asked, Null, Some(pclRaw), LongChannels, BootTime, db)
          IN  /\ task = ChannelEntered(begun)
              /\ cl = [pc |-> "hydrate", len |-> n, oldFrom |-> oldFrom,
                       pclRaw |-> pclRaw, perChannelLimit |-> begun.perChannelLimit,
                       cutoff |-> begun.cutoff, chans |-> LongChannels,
                       \* history of the latest page: its request, the batch of
                       \* the page before it in the same channel, its batch,
                       \* the position of the write that threw, whether the
                       \* fetch threw, and the table before it
                       req |-> NoRequest, prev |-> << >>, batch |-> << >>,
                       failedAt |-> 0, fetchThrew |-> FALSE, before |-> db,
                       \* history of the run: the messages scanned in each
                       \* channel, the times each channel was entered, the
                       \* channels a failure ended, the parity of the fetches
                       scanned |-> [ch \in {"h1", "h2"} |-> 0],
                       visits |-> [ch \in {"h1", "h2"} |-> IF ch = "h1" THEN 1 ELSE 0],
                       failed |-> {}, odd |-> FALSE]

\* one turn of the while loop of scanChannel over a long channel
HydrateLongPage ==
    /\ cl.pc = "hydrate" /\ task.pc = "page"
    /\ \E fetchOk \in BOOLEAN, k \in WriteFailures :
          LET ch == Head(task.chans)
              left == task.perChannelLimit - task.scannedHere
              limit == PageLimit(left)
              batch == IF fetchOk
                       THEN FetchMessagesFrom(LongHistory(ch, cl.len, cl.oldFrom),
                                              limit, task.beforeId)
                       ELSE << >>
              thrown == k > 0
              after == IF thrown THEN AfterThrow(task, batch, k)
                       ELSE AfterPage(task, batch)
              entered == after.pc = "page" /\ after.chans # task.chans
          IN  /\ thrown => k <= Len(batch) /\ HydrateRecords(batch[k], task.cutoff)
              /\ db' = HydrateBatch(db, IF thrown THEN SubSeq(batch, 1, k - 1) ELSE batch,
                                    task.cutoff)
              /\ task' = after
              /\ cl' = [cl EXCEPT
                          !.req = [ch |-> ch, limit |-> limit,
                                   before |-> task.beforeId, left |-> left],
                          !.prev = IF cl.req.ch = ch THEN cl.batch ELSE << >>,
                          !.batch = batch, !.failedAt = k,
                          !.fetchThrew = ~fetchOk, !.before = db,
                          !.scanned[ch] = @ + (IF thrown THEN k ELSE Len(batch)),
                          !.visits = IF entered
                                     THEN [@ EXCEPT ![Head(after.chans)] = @ + 1]
                                     ELSE @,
                          !.failed = IF thrown \/ ~fetchOk THEN @ \cup {ch} ELSE @,
                          !.odd = ~@]
    /\ UNCHANGED <<settings, activeVcSessions, voiceCh, present, admins, roleHolders,
                   lastKick, segStart, segSum, runStart, runSum, steps>>

NextHydrate == HydrateLongPage

SpecHydrate == InitHydrate /\ [][NextHydrate]_vars

\* the event loop resumes scanChannel whenever its fetch or its pause settles
SpecHydrateFair == SpecHydrate /\ WF_vars(HydrateLongPage)

----------------------------------------------------------------------------
(* Claims on the hydration of long channels *)

\* the messages of the latest page that the loop over the batch went through
PageProcessed == IF cl.failedAt > 0 THEN cl.failedAt ELSE Len(cl.batch)

\* C31: every page request of a hydration run asks for at most 100 messages
\* and at most the remaining budget of the channel, continues from the last
\* message of the page before it (the first page of a channel has no cursor),
\* and the messages scanned in one channel never exceed the per-channel
\* limit, which is the option clamped into 200..20000.
C31_PagesWithinBudget ==
    cl.pc = "hydrate" =>
        /\ cl.perChannelLimit \in 200..20000
        /\ cl.pclRaw \in 200..20000 => cl.perChannelLimit = cl.pclRaw
        /\ cl.pclRaw < 200 => cl.perChannelLimit = 200
        /\ cl.pclRaw > 20000 => cl.perChannelLimit = 20000
        /\ \A ch \in DOMAIN cl.scanned : cl.scanned[ch] <= cl.perChannelLimit
        /\ cl.req # NoRequest =>
              /\ cl.req.limit <= 100
              /\ cl.req.limit <= cl.perChannelLimit
                                    - (cl.scanned[cl.req.ch] - PageProcessed)
              /\ cl.req.before = IF cl.prev = << >> THEN Null
                                 ELSE Some(cl.prev[Len(cl.prev)].id)

\* a third page of 50 messages ends a channel of 300 under a limit of 250
C31_LastPageCutByBudget ==
    /\ cl.pc = "hydrate" /\ cl.req # NoRequest
    /\ cl.perChannelLimit = 250
    /\ cl.req.limit = 50 /\ Len(cl.batch) = 50
    /\ Len(cl.prev) = 100 /\ cl.req.before = Some(cl.prev[100].id)
    /\ cl.scanned[cl.req.ch] = 250

\* the follow-up of the run has been sent
HydrationReported ==
    /\ task.pc = "done" /\ task.reply = "hydrate-complete"
    /\ task.out # Null

\* C32: every hydration run terminates: the page loop of each channel ends
\* after finitely many fetches (limit reached, empty page, fetch error, or
\* oldest message before the cutoff), every candidate channel is visited
\* exactly once, and the run reports its statistics.
C32_HydrationTerminates ==
    <>(/\ HydrationReported
       /\ \A ch \in DOMAIN cl.visits : cl.visits[ch] = 1
       /\ task.out[1].channelsScanned = Len(cl.chans)
       /\ task.out[1].messagesScanned = cl.scanned["h1"] + cl.scanned["h2"])

\* a run that read both channels of 300 messages to their end has reported
C32_Witness_BothChannelsReadToTheEnd ==
    /\ cl.pc = "hydrate" /\ HydrationReported
    /\ cl.scanned["h1"] = 300 /\ cl.scanned["h2"] = 300
    /\ cl.failed = {}
    /\ task.out[1].channelsScanned = 2 /\ task.out[1].messagesScanned = 600

\* the positions of the latest page whose message the loop passed to the
\* store: all that it went through, but for the one whose write threw
PageWritten(u) ==
    {i \in 1..(IF cl.failedAt > 0 THEN cl.failedAt - 1 ELSE Len(cl.batch)) :
        /\ cl.batch[i].author = u
        /\ u \notin Bots
        /\ cl.batch[i].createdTimestamp >= cl.cutoff}

\* C33: a hydration page writes exactly for the scanned messages whose author
\* is not a bot and whose timestamp is at or after the cutoff, each as the
\* message upsert of (author, timestamp): a member without such a message
\* keeps the row (or the absence of a row) the page found, a member with one
\* has the row that upsert leaves for the last of them; nothing is written
\* for a bot or from a message older than the cutoff, and last_vc_at and
\* vc_seconds_total of an existing row never change.
C33_HydrationWritesOnlyQualifyingMessages ==
    (cl.pc = "hydrate" /\ cl.req # NoRequest) =>
        \A u \in Members :
            LET q == PageWritten(u)
                lastOne == cl.batch[CHOOSE i \in q : \A j \in q : j <= i]
            IN  /\ q = {} => /\ (u \in DOMAIN db) = (u \in DOMAIN cl.before)
                             /\ u \in DOMAIN db => db[u] = cl.before[u]
                /\ q # {} =>
                      /\ u \in DOMAIN db
                      /\ db[u] = upsertMessage(cl.before, u, lastOne.createdTimestamp)[u]
                      /\ lastOne.createdTimestamp >= cl.cutoff
                      /\ u \in DOMAIN cl.before =>
                            /\ db[u].last_vc_at = cl.before[u].last_vc_at
                            /\ db[u].vc_seconds_total = cl.before[u].vc_seconds_total
                /\ u \in Bots /\ u \in DOMAIN db => u \in DOMAIN cl.before

\* a page that holds messages of a bot and messages older than the cutoff
\* has changed the row of a member who has voice activity on record
C33_Witness_PageWithBotAndOldMessages ==
    /\ cl.pc = "hydrate" /\ cl.req # NoRequest /\ cl.failedAt = 0
    /\ \E i \in 1..Len(cl.batch) : cl.batch[i].author \in Bots
    /\ \E i \in 1..Len(cl.batch) : cl.batch[i].createdTimestamp < cl.cutoff
    /\ "u1" \in DOMAIN cl.before /\ "b1" \in DOMAIN cl.before
    /\ cl.before["u1"].last_vc_at # Null
    /\ db["u1"] # cl.before["u1"]

\* the latest page failed: its fetch or one of its writes threw
PageFailed == cl.fetchThrew \/ cl.failedAt > 0

\* C34: a channel that fails during hydration (its page fetch throws, or a
\* write throws) keeps what was written before the failure, is left at once
\* (no further page of it is requested), and does not end the run: the
\* channels after it are still entered and the run ends with its report.
C34_ChannelFailureIsContained ==
    (cl.pc = "hydrate" /\ cl.req # NoRequest) =>
        \* what the failing page wrote before it failed stays, and no row is lost
        /\ (PageFailed /\ cl.failedAt <= 1) => db = cl.before
        /\ (PageFailed /\ cl.failedAt = 2) =>
              db = upsertMessage(cl.before, cl.batch[1].author,
                                 cl.batch[1].createdTimestamp)
        /\ DOMAIN cl.before \subseteq DOMAIN db
        \* the failing page is the last one of its channel
        /\ PageFailed =>
              /\ cl.req.ch \in cl.failed
              /\ task.pc = "page" => Head(task.chans) # cl.req.ch
        /\ (cl.req.ch \in cl.failed) => PageFailed
        \* the channels after it are entered, and the run ends with its report
        /\ ("h1" \in cl.failed /\ cl.req.ch = "h1") =>
              /\ task.pc = "page" /\ Head(task.chans) = "h2"
              /\ cl.visits["h2"] = 1
        /\ task.pc = "done" =>
              /\ task.reply = "hydrate-complete"
              /\ \A ch \in DOMAIN cl.visits : cl.visits[ch] = 1
        /\ task.pc \in {"page", "done"}

\* the first channel failed at a write of its second page; the record of the
\* message before it is kept and the second channel was read to its end
C34_Witness_SecondChannelReadAfterFailure ==
    /\ cl.pc = "hydrate" /\ cl.failed = {"h1"}
    /\ cl.scanned["h1"] = 102
    /\ cl.req.ch = "h2" /\ cl.scanned["h2"] = 300
    /\ task.pc = "done" /\ task.reply = "hydrate-complete"
    /\ task.out[1].channelsScanned = 2

----------------------------------------------------------------------------
(* Harness of the event loop: a long operation (a hydration run or a
   membership scan) is suspended at an await while gateway events arrive.
   The callbacks that are ready (the listeners of the events that arrived,
   the continuation of the handler whose await settled) run one at a time,
   each to its next await or to its end, in the order they became ready. *)

\* the number of gateway events that arrive during the operation
MaxArrivals == 2

\* the gateway events: a message of a member or of a bot, a member joining a
\* voice channel or leaving voice
IngestEvents ==
    {[kind |-> "message", u |-> u, ch |-> Null, during |-> FALSE] : u \in Writers}
        \cup {[kind |-> "voice", u |-> u, ch |-> ch, during |-> FALSE] :
                 u \in VoiceUsers, ch \in Nullable({"v1"})}

\* the await of the long operation has settled: its continuation is ready
Settled == [kind |-> "settled", u |-> "", ch |-> Null, during |-> FALSE]

\* the channels the hydration run of this harness reads
IngestChannels == <<"c1", "c4">>

\* a variant of NextCallback that runs the continuation of the long
\* operation ahead of the listeners that were ready before it
NextCallbackLongFirst(queue) ==
    IF \E i \in 1..Len(queue) : queue[i].kind = "settled"
    THEN CHOOSE i \in 1..Len(queue) : queue[i].kind = "settled"
    ELSE 1

\* the event loop: the callback that runs next is the one ready first
NextCallback(queue) == 1

InitIngest ==
    /\ db = << >>
    /\ settings = Null
    /\ activeVcSessions = [u \in Members |-> Null]
    /\ voiceCh = [u \in Members |-> Null]
    /\ present = Members
    /\ admins = {}
    /\ roleHolders = {}
    /\ lastKick = Null
    /\ segStart = [u \in Members |-> Null]
    /\ segSum = [u \in Members |-> 0]
    /\ runStart = [u \in Members |-> Null]
    /\ runSum = [u \in Members |-> 0]
    /\ steps = 0
    /\ \E long \in {"hydrate-history", "inactive-scan"} :
          LET asked == [Idle EXCEPT !.kind = long, !.callerManage = TRUE,
                                    !.callerKick = TRUE]
          IN  task = IF long = "hydrate-history"
                     THEN ChannelEntered(HydrateBegun(asked, Null, Null, IngestChannels,
                                                      BootTime, db))
                     ELSE ScanEntered(asked, BootTime, DEFAULT_INACTIVITY_DAYS,
                                      DEFAULT_MIN_VC_MINUTES, Null)
    /\ cl = [pc |-> "ingest", queue |-> << >>,
             \* history: the events that arrived and those handled so far, the
             \* callback that ran last and the time its listener read
             arrived |-> 0, handled |-> 0, last |-> Settled, t |-> 0]

\* the long operation is suspended and what it awaits has not settled
IngestSuspended ==
    /\ task.pc \in {"fetch", "page"}
    /\ \A i \in 1..Len(cl.queue) : cl.queue[i].kind # "settled"

\* the gateway delivers an event: its listener is ready
IngestArrive ==
    /\ cl.pc = "ingest" /\ cl.arrived < MaxArrivals
    /\ \E e \in IngestEvents :
          cl' = [cl EXCEPT !.queue = Append(@, [e EXCEPT !.during = IngestSuspended]),
                           !.arrived = @ + 1]
    /\ UNCHANGED <<db, settings, activeVcSessions, voiceCh, present, admins, roleHolders,
                   task, lastKick, segStart, segSum, runStart, runSum, steps>>

\* the page fetch, the pause between pages or the member fetch settles
IngestSettle ==
    /\ cl.pc = "ingest" /\ IngestSuspended
    /\ cl' = [cl EXCEPT !.queue = Append(@, Settled)]
    /\ UNCHANGED <<db, settings, activeVcSessions, voiceCh, present, admins, roleHolders,
                   task, lastKick, segStart, segSum, runStart, runSum, steps>>

\* the event loop runs the next callback that is ready
IngestDispatch ==
    /\ cl.pc = "ingest" /\ cl.queue # << >>
    /\ \E t \in ClockValues, fetchOk \in BOOLEAN :
          LET i == NextCallback(cl.queue)
              cb == cl.queue[i]
              others == SubSeq(cl.queue, 1, i - 1) \o SubSeq(cl.queue, i + 1, Len(cl.queue))
              oldCh == voiceCh[cb.u]
              left == task.perChannelLimit - task.scannedHere
              batch == IF fetchOk
                       THEN FetchMessages(Head(task.chans), PageLimit(left), task.beforeId)
                       ELSE << >>
              list == scanInactive(fetchAllMembers(fetchOk, present), db, admins,
                                   roleHolders, task.cutoff, task.minVcSeconds,
                                   task.excludeRoleId)
          IN  /\ cl' = [cl EXCEPT !.queue = others, !.last = cb,
                                  !.t = IF cb.kind = "settled" THEN 0 ELSE t,
                                  !.handled = IF cb.kind = "settled" THEN @ ELSE @ + 1]
              /\ db' = IF cb.kind = "message"
                       THEN (IF cb.u \in Bots THEN db ELSE upsertMessage(db, cb.u, t))
                       ELSE IF cb.kind = "voice"
                       THEN VoiceStore(db, activeVcSessions, cb.u, oldCh, cb.ch, t)
                       ELSE IF task.pc = "page"
                       THEN HydrateBatch(db, batch, task.cutoff)
                       ELSE db
              /\ activeVcSessions' = IF cb.kind = "voice"
                                     THEN VoiceSessions(activeVcSessions, cb.u, oldCh, cb.ch, t)
                                     ELSE activeVcSessions
              /\ voiceCh' = IF cb.kind = "voice" THEN [voiceCh EXCEPT ![cb.u] = cb.ch]
                            ELSE voiceCh
              /\ task' = IF cb.kind # "settled" THEN task
                         ELSE IF task.pc = "page" THEN AfterPage(task, batch)
                         ELSE Returned([task EXCEPT !.list = list, !.fetchFailed = ~fetchOk],
                                       "listed")
    /\ UNCHANGED <<settings, present, admins, roleHolders, lastKick,
                   segStart, segSum, runStart, runSum, steps>>

NextIngest == IngestArrive \/ IngestSettle \/ IngestDispatch

SpecIngest == InitIngest /\ [][NextIngest]_vars

\* the event loop runs every callback that is ready, and what the handler
\* awaits settles: members.fetch has a time limit, a request resolves or rejects
SpecIngestFair == SpecIngest /\ WF_vars(IngestDispatch) /\ WF_vars(IngestSettle)

\* the listener that ran last has written what its event calls for
LastEventWritten ==
    LET e == cl.last
    IN  /\ (e.kind = "message" /\ e.u \notin Bots) =>
              /\ e.u \in DOMAIN db
              /\ db[e.u].last_message_at = Some(cl.t)
        /\ (e.kind = "voice" /\ e.ch # Null /\ e.u \in DOMAIN db) =>
              voiceCh[e.u] = e.ch
        /\ (e.kind = "voice" /\ e.ch # Null /\ activeVcSessions[e.u] = Some(cl.t)) =>
              /\ e.u \in DOMAIN db
              /\ db[e.u].last_vc_at = Some(cl.t)

----------------------------------------------------------------------------
(* Claims on the health snapshot and on the removal of listed members *)

\* the members of the guild whose row shows a message or a voice join at or
\* after the given time
ActiveSince(d, since) ==
    {u \in present :
        /\ u \in DOMAIN d
        /\ \/ Coalesce(d[u].last_message_at, 0) >= since
           \/ Coalesce(d[u].last_vc_at, 0) >= since}

\* the snapshot is built: the member fetch resolved and the counts are taken
SnapshotBuilt ==
    /\ task.pc = "fetch" /\ task.kind \in {"health-snapshot", "cron-health-snapshot"}
    /\ task'.pc = "done" /\ ~task'.fetchFailed

\* C36: the active-user count of the health snapshot is the number of
\* distinct current members whose row shows a message or a voice join within
\* the trailing 24 hours, each counted once, and building the snapshot
\* changes no row.  (Refuted: the count is the number of text senders.)
C36_ActiveUsersCountsMessageOrVoice ==
    [][SnapshotBuilt =>
          /\ task'.out[1].activeUsers = Cardinality(ActiveSince(db, task.cutoff))
          /\ db' = db]_vars

----------------------------------------------------------------------------
(* Harness of the removal run: /inactive-kick from the return of scanInactive
   to the end of kickMembers, with the events that arrive while kickMembers
   awaits the re-fetch and the kick of each listed member *)

InitKick ==
    /\ db = << >>
    /\ settings = Null
    /\ activeVcSessions = [u \in Members |-> Null]
    /\ voiceCh = [u \in Members |-> Null]
    /\ present = Members
    /\ admins = {}
    /\ roleHolders = {}
    /\ lastKick = Null
    /\ segStart = [u \in Members |-> Null]
    /\ segSum = [u \in Members |-> 0]
    /\ runStart = [u \in Members |-> Null]
    /\ runSum = [u \in Members |-> 0]
    /\ steps = 0
    /\ \E minVcMinutes \in {DEFAULT_MIN_VC_MINUTES, 1}, role \in RoleOptions :
          LET asked == [Idle EXCEPT !.kind = "inactive-kick", !.callerKick = TRUE,
                                    !.confirm = Some(TRUE)]
              entered == ScanEntered(asked, BootTime, DEFAULT_INACTIVITY_DAYS,
                                     minVcMinutes, role)
              list == scanInactive(fetchAllMembers(TRUE, present), db, admins,
                                   roleHolders, entered.cutoff, entered.minVcSeconds,
                                   entered.excludeRoleId)
          IN  /\ task = AfterScan(entered, list, TRUE, settings)
              \* history: the thresholds and the exclude role of the scan of this run
              /\ cl = [pc |-> "kick", cutoff |-> entered.cutoff,
                       minVcSeconds |-> entered.minVcSeconds,
                       excludeRoleId |-> entered.excludeRoleId]

NextKick ==
    \/ KickNext
    \/ MessageCreate
    \/ VoiceStateUpdate
    \/ SetRole
    \/ SetAdmin

SpecKick == InitKick /\ [][NextKick]_vars

\* a turn of kickMembers in which the member was removed
RemovedInTurn(u) ==
    /\ KickTurn
    /\ lastKick' # Null /\ lastKick'[1].id = u /\ lastKick'[1].removed

\* C37: every member removed by a removal run is classified inactive at the
\* moment of the removal: a member whose message or voice join was recorded
\* after the scan and before the kick is not removed.  (Refuted: kickMembers
\* re-checks the protection of the member only.)
C37_RemovedMembersAreInactiveAtRemoval ==
    [][\A u \in Members :
          (cl.pc = "kick" /\ RemovedInTurn(u)) =>
              isInactiveByThreshold(getActivityRow(db, u), cl.cutoff, cl.minVcSeconds)]_vars

\* C38: a removal run with an exclude role never removes a member who holds
\* that role at the moment of the removal, one granted the role after the
\* scan included.  (Refuted: kickMembers does not know the exclude role.)
C38_ExcludeRoleHoldersAreNotRemoved ==
    [][\A u \in Members :
          (cl.pc = "kick" /\ RemovedInTurn(u)) =>
              ~(cl.excludeRoleId # Null /\ u \in roleHolders)]_vars

\* C39: a member who is connected to voice when the scan runs (an open
\* session, not yet flushed) is never classified inactive, however long ago
\* the session started and whatever the window.  (Refuted: the scan reads
\* the stored row only, and last_vc_at is the time of the join.)
C39_ConnectedMembersAreNotListed ==
    cl.pc = "returned" =>
        \A u \in Members :
            (voiceCh[u] # Null /\ activeVcSessions[u] # Null) => u \notin Listed(cl.list)

====
